---------------------------- MODULE Spec2Model ----------------------------
(***************************************************************************)
(* State-machine model of the dispatch-board dashboard:                    *)
(*   - the Refresh Orchestrator  (src/app/pages/DispatchPage.tsx),         *)
(*   - the Scroll-Refresh Table Controller                                 *)
(*                              (src/app/components/ShippingTable.tsx),    *)
(*   - the data transformation functions of DispatchPage.tsx,              *)
(*   - the HTTP client's request loop (src/app/utils/fetch.ts).            *)
(*                                                                         *)
(* JavaScript values are tagged records (typeof in field t).  The browser  *)
(* facilities the code uses are modelled as tables: the interval table     *)
(* (setInterval / clearInterval), the animation-frame table                *)
(* (requestAnimationFrame / cancelAnimationFrame) and the timeout table    *)
(* of the HTTP client (setTimeout / clearTimeout).  Handles are opaque:    *)
(* a new handle is any positive number that is neither live in its table   *)
(* nor still held by the reference the code keeps.                         *)
(***************************************************************************)
EXTENDS Integers, Sequences, FiniteSets, TLC

(***************************************************************************)
(* Bounds of the model (not program constants).                            *)
(***************************************************************************)
\* loadData calls started during one lifetime of the page
MaxLoads == 3
\* how far the scrollable height exceeds the bottom threshold
MaxExtraScroll == 2
TickMs == 500
\* longest run of delayed records without receipt given to transformAlerts
MaxDelayedRun == 9
\* largest count given to the receipt warning
MaxCount == 10
\* bottom-reached callbacks in the specification of the Trends panel
MaxTrendsRefreshes == 1

(***************************************************************************)
(* Program constants.                                                      *)
(***************************************************************************)
NO_DATA_REFRESH_INTERVAL == 5 * 60 * 1000
SCROLL_SPEED == 1
BOTTOM_THRESHOLD == 50
ALERT_CAP == 8
\* the fixed alert text of transformAlerts (a Chinese literal in the source,
\* "overdue, not shipped"), written in ASCII here
ALERT_MESSAGE == "overdue-not-shipped"
\* the factory name shown when the lookup gives none (an em dash in the
\* source), written in ASCII here
NAME_PLACEHOLDER == "--"
\* the last fallback of the factory-code resolution (a string literal)
DEFAULT_FACTORY_CODE == "DEFAULT_FACTORY_CODE"

(***************************************************************************)
(* JavaScript values.                                                      *)
(***************************************************************************)
Undefined == [t |-> "undefined"]
Null == [t |-> "null"]
NaN == [t |-> "number", nan |-> TRUE]
JBool(b) == [t |-> "boolean", b |-> b]
JNum(n) == [t |-> "number", nan |-> FALSE, n |-> n]
JStr(s) == [t |-> "string", s |-> s]

\* ToBoolean: undefined, null, false, 0, NaN and "" are falsy, all else
\* truthy.
Truthy(v) ==
    CASE v.t \in {"undefined", "null"} -> FALSE
      [] v.t = "boolean" -> v.b
      [] v.t = "number" -> (~v.nan) /\ v.n # 0
      [] v.t = "string" -> v.s # ""
      [] OTHER -> TRUE

\* a || b
JsOr(a, b) == IF Truthy(a) THEN a ELSE b

Digits == "0123456789"
IsDigit(c) == \E i \in 1..10 : SubSeq(Digits, i, i) = c
DigitVal(c) == (CHOOSE i \in 1..10 : SubSeq(Digits, i, i) = c) - 1
CharAt(s, i) == SubSeq(s, i, i)
IsSpace(c) == c = " "

\* Number.prototype.toString() of a natural number
RECURSIVE NumToString(_)
NumToString(n) ==
    IF n < 10 THEN CharAt(Digits, n + 1)
    ELSE NumToString(n \div 10) \o CharAt(Digits, (n % 10) + 1)

\* String.prototype.padStart(len, fill) for a one-character fill
RECURSIVE PadStart(_, _, _)
PadStart(s, len, fill) ==
    IF Len(s) >= len THEN s ELSE PadStart(fill \o s, len, fill)

\* the value of the longest all-digit prefix of s from position i on
RECURSIVE DigitRun(_, _, _)
DigitRun(s, i, acc) ==
    IF i <= Len(s) /\ IsDigit(CharAt(s, i))
    THEN DigitRun(s, i + 1, acc * 10 + DigitVal(CharAt(s, i)))
    ELSE acc

RECURSIVE SkipSpaces(_, _)
SkipSpaces(s, i) ==
    IF i <= Len(s) /\ IsSpace(CharAt(s, i)) THEN SkipSpaces(s, i + 1) ELSE i

\* String.prototype.trim (blanks only)
RECURSIVE TrimEnd(_)
TrimEnd(s) ==
    IF Len(s) > 0 /\ IsSpace(CharAt(s, Len(s)))
    THEN TrimEnd(SubSeq(s, 1, Len(s) - 1)) ELSE s
Trim(s) == TrimEnd(SubSeq(s, SkipSpaces(s, 1), Len(s)))

\* parseInt(s, 10): leading white space, an optional sign, then digits up
\* to the first non-digit; NaN when no digit is found.
ParseInt(s) ==
    LET i == SkipSpaces(s, 1)
        neg == i <= Len(s) /\ CharAt(s, i) = "-"
        j == IF i <= Len(s) /\ CharAt(s, i) \in {"-", "+"} THEN i + 1 ELSE i
    IN  IF j <= Len(s) /\ IsDigit(CharAt(s, j))
        THEN JNum(IF neg THEN 0 - DigitRun(s, j, 0) ELSE DigitRun(s, j, 0))
        ELSE NaN

\* new Date(timeStr) for a date-time string without zone designator,
\* "YYYY-MM-DDTHH:MM:SS" or "YYYY-MM-DD HH:MM:SS" (read as local time);
\* every other string gives an Invalid Date.
AllDigits(s, from, to) == \A i \in from..to : IsDigit(CharAt(s, i))
ParseDate(s) ==
    IF /\ Len(s) = 19
       /\ AllDigits(s, 1, 4) /\ CharAt(s, 5) = "-"
       /\ AllDigits(s, 6, 7) /\ CharAt(s, 8) = "-"
       /\ AllDigits(s, 9, 10) /\ CharAt(s, 11) \in {"T", " "}
       /\ AllDigits(s, 12, 13) /\ CharAt(s, 14) = ":"
       /\ AllDigits(s, 15, 16) /\ CharAt(s, 17) = ":"
       /\ AllDigits(s, 18, 19)
       /\ DigitRun(s, 12, 0) < 24 /\ DigitRun(s, 15, 0) < 60
       /\ DigitRun(s, 18, 0) < 60
    THEN [valid |-> TRUE, hours |-> DigitRun(s, 12, 0),
          minutes |-> DigitRun(s, 15, 0)]
    ELSE [valid |-> FALSE, hours |-> 0, minutes |-> 0]

\* Date.prototype.getHours / getMinutes followed by toString
HoursString(d) == IF d.valid THEN NumToString(d.hours) ELSE "NaN"
MinutesString(d) == IF d.valid THEN NumToString(d.minutes) ELSE "NaN"

(***************************************************************************)
(* Data transformation (DispatchPage.tsx).                                 *)
(***************************************************************************)
formatTime(timeStr) ==
    IF ~Truthy(timeStr) THEN "-"
    ELSE LET date == ParseDate(timeStr.s)
         IN  PadStart(HoursString(date), 2, "0") \o ":"
                 \o PadStart(MinutesString(date), 2, "0")

\* a variant that grades a record on time as low risk
getRiskLevel_LowWhenOnTime(riskFlag) ==
    CASE riskFlag = JStr("DELAYED") -> "high"
      [] riskFlag = JStr("AT_RISK") -> "medium"
      [] riskFlag = JStr("DELIVERED") -> "none"
      [] riskFlag = JStr("ON_TIME") -> "low"
      [] OTHER -> "none"

getRiskLevel(riskFlag) ==
    CASE riskFlag = JStr("DELAYED") -> "high"
      [] riskFlag = JStr("AT_RISK") -> "medium"
      [] riskFlag \in {JStr("DELIVERED"), JStr("ON_TIME")} -> "none"
      [] OTHER -> "none"

getOrderStatus(isDelivered) ==
    IF isDelivered.t = "boolean"
    THEN (IF isDelivered.b THEN "shipped" ELSE "pending")
    ELSE LET value == IF isDelivered.t = "string"
                      THEN ParseInt(isDelivered.s) ELSE isDelivered
         IN  IF Truthy(value) THEN "shipped" ELSE "pending"

toOrder(record) ==
    [id |-> JsOr(record.sheetNo, JStr("")),
     type |-> JsOr(record.supplyType, JStr("-")),
     receiver |-> JsOr(record.deliveryRecName, JStr("-")),
     requestTime |-> formatTime(record.lastRecRequireTime),
     status |-> getOrderStatus(record.isDelivered),
     hasReturn |-> JsOr(record.hasReceipt, JBool(FALSE)),
     risk |-> getRiskLevel(record.riskFlag),
     riskFlag |-> record.riskFlag]

transformOrders(records) == [i \in 1..Len(records) |-> toOrder(records[i])]

\* Array.prototype.filter is SelectSeq of the Sequences module.

\* Array.prototype.slice(0, n)
Slice0(seq, n) == SubSeq(seq, 1, IF Len(seq) < n THEN Len(seq) ELSE n)

IsDelayedNoReceipt(r) == r.riskFlag = JStr("DELAYED") /\ ~Truthy(r.hasReceipt)

toAlert(record) ==
    [id |-> JsOr(record.sheetNo, JStr("")),
     message |-> ALERT_MESSAGE,
     timestamp |-> formatTime(record.lastRecRequireTime)]

\* a variant that keeps the last records rather than the first
transformAlerts_KeepsLast(records) ==
    LET found == SelectSeq(records, IsDelayedNoReceipt)
        matching == SubSeq(found, IF Len(found) > ALERT_CAP
                                  THEN Len(found) - ALERT_CAP + 1 ELSE 1,
                           Len(found))
    IN  [i \in 1..Len(matching) |-> toAlert(matching[i])]

transformAlerts(records) ==
    LET matching == Slice0(SelectSeq(records, IsDelayedNoReceipt), ALERT_CAP)
    IN  [i \in 1..Len(matching) |-> toAlert(matching[i])]

IsDeliveredTruthy(r) == Truthy(r.isDelivered)
HasReceiptTruthy(r) == Truthy(r.hasReceipt)
IsPendingWithReceipt(r) == Truthy(r.hasReceipt) /\ r.isDelivered = JBool(FALSE)

IsDeliveredFalse(r) == r.isDelivered = JBool(FALSE)

\* a variant that counts the pending records by their flag
computeSummary_CountsPending(records) ==
    [totalCount |-> Len(records),
     deliveredCount |-> Len(SelectSeq(records, IsDeliveredTruthy)),
     pendingCount |-> Len(SelectSeq(records, IsDeliveredFalse)),
     delayedCount |-> Len(SelectSeq(records, IsDelayedNoReceipt)),
     receiptCount |-> Len(SelectSeq(records, HasReceiptTruthy))]

\* the summary object loadData builds from one record set
computeSummary(records) ==
    LET deliveredCount == Len(SelectSeq(records, IsDeliveredTruthy))
    IN  [totalCount |-> Len(records),
         deliveredCount |-> deliveredCount,
         pendingCount |-> Len(records) - deliveredCount,
         delayedCount |-> Len(SelectSeq(records, IsDelayedNoReceipt)),
         receiptCount |-> Len(SelectSeq(records, HasReceiptTruthy))]

computePendingWithReceipt(records) == Len(SelectSeq(records, IsPendingWithReceipt))

(***************************************************************************)
(* The receipt warning (components/dispatch/ReceiptWarning).               *)
(***************************************************************************)
MathMax(a, b) == IF a > b THEN a ELSE b

\* a variant that displays the difference as it is
ReceiptWarning_NoFloor(receiptCount, deliveredCount, pendingWithReceiptCount) ==
    LET showWarning ==
            pendingWithReceiptCount > 0 \/ receiptCount > deliveredCount
    IN  IF ~showWarning
        THEN [visible |-> FALSE]
        ELSE [visible |-> TRUE,
              pendingLine |-> pendingWithReceiptCount > 0,
              offSystem |-> receiptCount - deliveredCount]

\* what the component renders: nothing, or the warning box with the line
\* about pending records with receipt (if any) and the off-system count
ReceiptWarning(receiptCount, deliveredCount, pendingWithReceiptCount) ==
    LET showWarning ==
            pendingWithReceiptCount > 0 \/ receiptCount > deliveredCount
        offSystemCount == receiptCount - deliveredCount
    IN  IF ~showWarning
        THEN [visible |-> FALSE]
        ELSE [visible |-> TRUE,
              pendingLine |-> pendingWithReceiptCount > 0,
              offSystem |-> MathMax(0, offSystemCount)]

EmptySummary ==
    [totalCount |-> 0, deliveredCount |-> 0, pendingCount |-> 0,
     delayedCount |-> 0, receiptCount |-> 0]

(***************************************************************************)
(* Record sets the dispatch-list fetch can return in the page model.       *)
(***************************************************************************)
Rec(sheetNo, isDelivered, hasReceipt, riskFlag, time) ==
    [sheetNo |-> sheetNo, supplyType |-> JStr("JIT"),
     deliveryRecName |-> Undefined, lastRecRequireTime |-> time,
     isDelivered |-> isDelivered, hasReceipt |-> hasReceipt,
     riskFlag |-> riskFlag]

\* Scenario B of the specification: one delayed record without receipt,
\* one delivered record, one record with a receipt that was never delivered
ScenarioB ==
    << Rec(JStr("S1"), Undefined, JBool(FALSE), JStr("DELAYED"),
           JStr("2026-02-10T08:05:00")),
       Rec(JStr("S2"), JBool(TRUE), Undefined, JStr("ON_TIME"),
           JStr("2026-02-10 14:30:00")),
       Rec(JStr("S3"), JBool(FALSE), JBool(TRUE), JStr("AT_RISK"), Undefined) >>

\* n delayed records without receipt, numbered D1, D2, ...
DelayedRun(n) ==
    [i \in 1..n |-> Rec(JStr("D" \o NumToString(i)), JBool(FALSE), Undefined,
                        JStr("DELAYED"), JStr("2026-02-10T09:00:00"))]

\* one record more than the alert cap, so that the cap takes effect
RecordSets == { <<>>, ScenarioB, DelayedRun(ALERT_CAP + 1) }

\* The transformation functions are pure: their results for the record sets
\* of the model are tabulated once.
Transformed ==
    [R \in RecordSets |->
        [orders |-> transformOrders(R),
         alerts |-> transformAlerts(R),
         summary |-> computeSummary(R),
         pendingWithReceipt |-> computePendingWithReceipt(R)]]

\* window.location.search as the two parameters loadFactoryInfo reads
\* (URLSearchParams.get gives null for an absent parameter)
UrlSearches ==
    { [factoryCode |-> Null, factorycode |-> Null],
      [factoryCode |-> JStr(" F1 "), factorycode |-> Null] }

\* import.meta.env.VITE_FACTORY_CODE of the build
EnvFactoryCodes == { Undefined }

\* what the factory lookup can resolve with: the factory object, the object
\* inside a data envelope, an object without a name, nothing at all
FactoryResponses ==
    { [data |-> Undefined, factoryName |-> JStr("Plant A")],
      [data |-> [factoryName |-> JStr("Plant A")], factoryName |-> Undefined],
      [data |-> Undefined, factoryName |-> Undefined],
      Undefined }

\* wall-clock readings (seconds of the day) a completing loadData can take
WallClockReadings == { 12 * 3600, 12 * 3600 + 1 }

(***************************************************************************)
(* State.                                                                  *)
(***************************************************************************)
VARIABLES
    \* ---- DispatchPage: React state and refs
    phase,                    \* "init" (rendered, effects not yet run),
                              \* "mounted", "unmounted"
    orders, alerts, summary, pendingWithReceiptCount,
    loading, lastUpdateTime,
    tableRefreshKey, trendsRefreshKey,
    refreshTimerRef,          \* 0 models null; handles are positive
    factoryName, factoryCode,
    factoryCall,              \* loadFactoryInfo: [st: "none" | "inflight" |
                              \* "done", code: the code it looks up]
    \* ---- browser
    timers,                   \* live intervals: records [id, period]
    frames,                   \* pending animation-frame requests (ids)
    \* ---- loadData calls, in the order they were started
    calls,                    \* [st: "inflight" | "ok" | "err", fetches]
    \* ---- ShippingTable: props of the last render, state and refs
    tblOrders, tblRefreshKey,
    ordersChanged,            \* setOrders ran since the last render
    effectActive,             \* the last effect run registered its cleanup
    scrollRef, shouldScrollRef, isAtBottomRef, isAtBottom,
    scrollTop, maxScroll,     \* of the container element
    \* ---- history (read by the properties only)
    lastResolved,             \* the loadData call that resolved last: its
                              \* number, its records, and whether a call
                              \* started after it had resolved before it
                              \* with other records
    cycleFires,               \* onRefresh invocations in this scroll cycle
    refreshCalls,             \* onRefresh invocations in all
    \* ---- FetchHttp.request: one call of the HTTP client
    httpPc,                   \* "idle", "fetching" (awaiting fetch),
                              \* "sleeping" (awaiting sleep), "settled"
    requestId,                \* generateRequestId() of the call
    unwrap, retry, retryDelay,  \* the options of the call
    attempt,                  \* the loop counter
    lastError,
    sleepTimer,               \* ms left on the timer of sleep(), -1: none
    httpResult,               \* [kind: "none" | "value" | "error", ...]
    \* ---- history of the call (read by the properties only)
    httpLog,                  \* what each fetch of the call came back with
    sinceFailure,             \* ms since the last failed attempt, capped at
                              \* retryDelay
    \* ---- the dispatch API client
    apiModule,                \* the module '../api' resolves to in the build
    lastDispatch,             \* history: the loadData call whose dispatch-list
                              \* request was answered last, and the response
    \* ---- one application of a pure function of the page
    pureCall,                 \* [fn: "none" or its name, arg], and ret once
                              \* the function has returned
    \* ---- the Trends panel: state of the component, the dependencies of
    \* its last effect run, its fetches in flight
    trends

pageVars ==
    << phase, orders, alerts, summary, pendingWithReceiptCount, loading,
       lastUpdateTime, tableRefreshKey, trendsRefreshKey, refreshTimerRef,
       factoryName, factoryCode, factoryCall, timers, calls, lastResolved >>

tableVars ==
    << frames, tblOrders, tblRefreshKey, ordersChanged, effectActive,
       scrollRef, shouldScrollRef, isAtBottomRef, isAtBottom, scrollTop,
       maxScroll, cycleFires, refreshCalls >>

httpVars ==
    << httpPc, requestId, unwrap, retry, retryDelay, attempt, lastError,
       sleepTimer, httpResult, httpLog, sinceFailure >>

apiVars == << apiModule, lastDispatch >>

pureVars == << pureCall >>

trendsVars == << trends >>

vars == << pageVars, tableVars, httpVars, apiVars, pureVars, trendsVars >>

\* what a step of the page and its table leaves alone
notPageVars == << httpVars, apiVars, pureVars, trendsVars >>

\* what a step of the HTTP client leaves alone
notHttpVars == << pageVars, tableVars, apiVars, pureVars, trendsVars >>

\* what the application of a pure function leaves alone
notPureVars == << pageVars, tableVars, httpVars, apiVars, trendsVars >>

refreshState ==
    << orders, alerts, summary, pendingWithReceiptCount, lastUpdateTime,
       refreshTimerRef, timers >>

Mounted == phase = "mounted"

\* a handle the browser has not handed out to anything still referring to it
NewHandle(live, held) ==
    CHOOSE h \in 1..(Cardinality(live) + 2) : h \notin live /\ h # held

TimerIds == { tm.id : tm \in timers }

\* window.setInterval(cb, period) / clearInterval(id) on the interval table
SetInterval(tms, id, period) == tms \cup { [id |-> id, period |-> period] }
ClearInterval(tms, id) == { tm \in tms : tm.id # id }

\* cancelAnimationFrame(id)
CancelFrame(fs, id) == fs \ {id}

\* Date.prototype.toLocaleTimeString('zh-CN', 2-digit hour, minute, second)
ToLocaleTimeString(sec) ==
    PadStart(NumToString((sec \div 3600) % 24), 2, "0") \o ":"
        \o PadStart(NumToString((sec \div 60) % 60), 2, "0") \o ":"
        \o PadStart(NumToString(sec % 60), 2, "0")

\* A state setter of a component that has unmounted writes nothing: React
\* drops the update.  Refs and browser tables are written all the same.
SetState(old, new) == IF Mounted THEN new ELSE old

(***************************************************************************)
(* DispatchPage: loadFactoryInfo.                                          *)
(***************************************************************************)
\* the factory code loadFactoryInfo looks up, for the URL parameters
\* `search` and the build's VITE_FACTORY_CODE `env`
resolveFactoryCode(search, env) ==
    LET factoryCodeFromUrl ==
            JsOr(search.factoryCode, JsOr(search.factorycode, Null))
        trimmed == IF Truthy(factoryCodeFromUrl)
                   THEN JStr(Trim(factoryCodeFromUrl.s))
                   ELSE factoryCodeFromUrl
    IN  JsOr(trimmed, JsOr(env, JStr(DEFAULT_FACTORY_CODE))).s

\* loadFactoryInfo up to its await
loadFactoryInfoStart(search, env) ==
    factoryCall' = [st |-> "inflight", code |-> resolveFactoryCode(search, env)]

\* (res as any)?.data ? res.data : res
factoryInfoOf(res) ==
    IF res # Undefined /\ res.data # Undefined THEN res.data ELSE res

\* the lookup resolves with `res`; reading info.factoryName of an undefined
\* info throws into the catch block, which sets the placeholder only
FactoryResolve(res) ==
    /\ factoryCall.st = "inflight"
    /\ factoryCall' = [st |-> "done", code |-> ""]
    /\ LET info == factoryInfoOf(res)
       IN  IF info = Undefined
           THEN /\ factoryName' = SetState(factoryName, NAME_PLACEHOLDER)
                /\ UNCHANGED factoryCode
           ELSE /\ factoryName' =
                       SetState(factoryName,
                                JsOr(info.factoryName,
                                     JStr(NAME_PLACEHOLDER)).s)
                /\ factoryCode' = SetState(factoryCode, factoryCall.code)
    /\ UNCHANGED << phase, orders, alerts, summary, pendingWithReceiptCount,
                    loading, lastUpdateTime, tableRefreshKey, trendsRefreshKey,
                    refreshTimerRef, timers, calls, lastResolved >>
    /\ UNCHANGED tableVars
    /\ UNCHANGED notPageVars

\* a variant without the catch block's setFactoryName
FactoryReject_NoPlaceholder ==
    /\ factoryCall.st = "inflight"
    /\ factoryCall' = [st |-> "done", code |-> ""]
    /\ UNCHANGED << phase, orders, alerts, summary, pendingWithReceiptCount,
                    loading, lastUpdateTime, tableRefreshKey, trendsRefreshKey,
                    refreshTimerRef, factoryName, factoryCode, timers, calls,
                    lastResolved >>
    /\ UNCHANGED tableVars
    /\ UNCHANGED notPageVars

\* the lookup rejects: the catch block
FactoryReject ==
    /\ factoryCall.st = "inflight"
    /\ factoryCall' = [st |-> "done", code |-> ""]
    /\ factoryName' = SetState(factoryName, NAME_PLACEHOLDER)
    /\ UNCHANGED << phase, orders, alerts, summary, pendingWithReceiptCount,
                    loading, lastUpdateTime, tableRefreshKey, trendsRefreshKey,
                    refreshTimerRef, factoryCode, timers, calls,
                    lastResolved >>
    /\ UNCHANGED tableVars
    /\ UNCHANGED notPageVars

(***************************************************************************)
(* DispatchPage: loadData.                                                 *)
(***************************************************************************)

\* loadData up to its await: setLoading(true), then one fetchDispatchBoard
loadDataStart ==
    /\ calls' = Append(calls, [st |-> "inflight", fetches |-> 1])
    /\ loading' = IF phase = "unmounted" THEN loading ELSE TRUE

\* refreshPolicy with the non-empty branch left out: an armed timer is never
\* disarmed
refreshPolicy_NeverDisarms(hasData, ref, tms) ==
    IF ~hasData
    THEN LET cleared == IF ref # 0 THEN ClearInterval(tms, ref) ELSE tms
             id == NewHandle({ tm.id : tm \in cleared }, ref)
         IN  [ref |-> id,
              timers |-> SetInterval(cleared, id, NO_DATA_REFRESH_INTERVAL)]
    ELSE [ref |-> ref, timers |-> tms]

\* refreshPolicy that arms without clearing the interval in the handle
refreshPolicy_ArmsWithoutClearing(hasData, ref, tms) ==
    IF ~hasData
    THEN LET id == NewHandle({ tm.id : tm \in tms }, ref)
         IN  [ref |-> id,
              timers |-> SetInterval(tms, id, NO_DATA_REFRESH_INTERVAL)]
    ELSE IF ref # 0
         THEN [ref |-> 0, timers |-> ClearInterval(tms, ref)]
         ELSE [ref |-> ref, timers |-> tms]

\* the refresh policy at the end of a successful loadData: the new values
\* of refreshTimerRef.current and of the interval table
refreshPolicy(hasData, ref, tms) ==
    IF ~hasData
    THEN LET cleared == IF ref # 0 THEN ClearInterval(tms, ref) ELSE tms
             id == NewHandle({ tm.id : tm \in cleared }, ref)
         IN  [ref |-> id,
              timers |-> SetInterval(cleared, id, NO_DATA_REFRESH_INTERVAL)]
    ELSE IF ref # 0
         THEN [ref |-> 0, timers |-> ClearInterval(tms, ref)]
         ELSE [ref |-> ref, timers |-> tms]

\* loadDataSuccess that drops the result of a call resolving while another
\* call is in flight
loadDataSuccess_DropsOverlapped(records, now) ==
    IF Cardinality({ c \in 1..Len(calls) : calls[c].st = "inflight" }) > 1
    THEN UNCHANGED << orders, ordersChanged, alerts, summary,
                      pendingWithReceiptCount, refreshTimerRef, timers,
                      lastUpdateTime >>
    ELSE LET transformedOrders == Transformed[records].orders
             policy == refreshPolicy(Len(transformedOrders) > 0,
                                     refreshTimerRef, timers)
         IN  /\ orders' = SetState(orders, transformedOrders)
             /\ ordersChanged' = SetState(ordersChanged, TRUE)
             /\ alerts' = SetState(alerts, Transformed[records].alerts)
             /\ summary' = SetState(summary, Transformed[records].summary)
             /\ pendingWithReceiptCount' =
                    SetState(pendingWithReceiptCount,
                             Transformed[records].pendingWithReceipt)
             /\ refreshTimerRef' = policy.ref
             /\ timers' = policy.timers
             /\ lastUpdateTime' =
                    SetState(lastUpdateTime, ToLocaleTimeString(now))

\* loadDataSuccess that keeps the alerts of the previous result when the new
\* one has none
loadDataSuccess_KeepsAlerts(records, now) ==
    LET transformedOrders == Transformed[records].orders
        policy == refreshPolicy(Len(transformedOrders) > 0,
                                refreshTimerRef, timers)
    IN  /\ orders' = SetState(orders, transformedOrders)
        /\ ordersChanged' = SetState(ordersChanged, TRUE)
        /\ alerts' = IF Transformed[records].alerts = <<>>
                     THEN alerts
                     ELSE SetState(alerts, Transformed[records].alerts)
        /\ summary' = SetState(summary, Transformed[records].summary)
        /\ pendingWithReceiptCount' =
               SetState(pendingWithReceiptCount,
                        Transformed[records].pendingWithReceipt)
        /\ refreshTimerRef' = policy.ref
        /\ timers' = policy.timers
        /\ lastUpdateTime' =
               SetState(lastUpdateTime, ToLocaleTimeString(now))

\* loadData after its await resolved with `records`, up to the catch; `now`
\* is the wall-clock reading of new Date()
loadDataSuccess(records, now) ==
    LET transformedOrders == Transformed[records].orders
        policy == refreshPolicy(Len(transformedOrders) > 0,
                                refreshTimerRef, timers)
    IN  /\ orders' = SetState(orders, transformedOrders)
        /\ ordersChanged' = SetState(ordersChanged, TRUE)
        /\ alerts' = SetState(alerts, Transformed[records].alerts)
        /\ summary' = SetState(summary, Transformed[records].summary)
        /\ pendingWithReceiptCount' =
               SetState(pendingWithReceiptCount,
                        Transformed[records].pendingWithReceipt)
        /\ refreshTimerRef' = policy.ref
        /\ timers' = policy.timers
        /\ lastUpdateTime' =
               SetState(lastUpdateTime, ToLocaleTimeString(now))

\* a catch block that blanks the board
loadDataFailure_BlanksBoard(c) ==
    /\ calls' = [calls EXCEPT ![c].st = "err"]
    /\ orders' = SetState(orders, <<>>)
    /\ UNCHANGED << ordersChanged, alerts, summary,
                    pendingWithReceiptCount, refreshTimerRef, timers,
                    lastUpdateTime >>

\* loadData's catch block: console.error only
loadDataFailure(c) ==
    /\ calls' = [calls EXCEPT ![c].st = "err"]
    /\ UNCHANGED << orders, ordersChanged, alerts, summary,
                    pendingWithReceiptCount, refreshTimerRef, timers,
                    lastUpdateTime >>

\* loadData of call c from the moment its await resolves with a result
\* whose content is `records`
loadDataResolved(c, records, now) ==
    /\ calls[c].st = "inflight"
    /\ calls' = [calls EXCEPT ![c].st = "ok"]
    /\ loadDataSuccess(records, now)
    /\ loading' = SetState(loading, FALSE)
    /\ lastResolved' =
           [id |-> c, records |-> records,
            stale |-> lastResolved.id > c /\ lastResolved.records # records]
    /\ UNCHANGED << phase, tableRefreshKey, trendsRefreshKey, factoryName,
                    factoryCode, factoryCall >>
    /\ UNCHANGED << frames, tblOrders, tblRefreshKey, effectActive, scrollRef,
                    shouldScrollRef, isAtBottomRef, isAtBottom, scrollTop,
                    maxScroll, cycleFires, refreshCalls >>

\* loadData of call c from the moment its await rejects
loadDataRejected(c) ==
    /\ calls[c].st = "inflight"
    /\ loadDataFailure(c)
    /\ loading' = SetState(loading, FALSE)
    /\ UNCHANGED << phase, tableRefreshKey, trendsRefreshKey, lastResolved,
                    factoryName, factoryCode, factoryCall >>
    /\ UNCHANGED << frames, tblOrders, tblRefreshKey, effectActive, scrollRef,
                    shouldScrollRef, isAtBottomRef, isAtBottom, scrollTop,
                    maxScroll, cycleFires, refreshCalls >>

\* the await of call c resolves with a result whose content is `records`
LoadDataResolve(c, records, now) ==
    /\ loadDataResolved(c, records, now)
    /\ UNCHANGED notPageVars

\* the await of call c rejects
LoadDataReject(c) ==
    /\ loadDataRejected(c)
    /\ UNCHANGED notPageVars

\* a tick of a live interval runs its callback, () => loadData()
TimerTick(id) ==
    /\ id \in TimerIds
    /\ Len(calls) < MaxLoads
    /\ loadDataStart
    /\ UNCHANGED << phase, orders, alerts, summary, pendingWithReceiptCount,
                    lastUpdateTime, tableRefreshKey, trendsRefreshKey,
                    refreshTimerRef, timers, lastResolved, factoryName,
                    factoryCode, factoryCall >>
    /\ UNCHANGED tableVars
    /\ UNCHANGED notPageVars

(***************************************************************************)
(* DispatchPage: mount and unmount.                                        *)
(***************************************************************************)
\* the mount effect: loadFactoryInfo(), then loadData().  The table renders
\* its empty state and its own effect returns at once (orders is the initial
\* empty list).
Mount(search, env) ==
    /\ phase = "init"
    /\ phase' = "mounted"
    /\ loadFactoryInfoStart(search, env)
    /\ loadDataStart
    /\ UNCHANGED << orders, alerts, summary, pendingWithReceiptCount,
                    lastUpdateTime, tableRefreshKey, trendsRefreshKey,
                    refreshTimerRef, timers, lastResolved, factoryName,
                    factoryCode >>
    /\ UNCHANGED tableVars
    /\ UNCHANGED notPageVars

\* unmount runs the cleanups: DispatchPage clears the interval held in
\* refreshTimerRef (and leaves the ref as it is), ShippingTable cancels the
\* frame held in scrollRef when its last effect run registered the cleanup.
\* The table's DOM, state and refs are gone with it (they take their initial
\* values here); the page's state stays as it was, since the closures of
\* loadData calls in flight still refer to its setters and to refreshTimerRef.
Unmount ==
    /\ phase = "mounted"
    /\ phase' = "unmounted"
    /\ timers' = IF refreshTimerRef # 0
                 THEN ClearInterval(timers, refreshTimerRef) ELSE timers
    /\ frames' = IF effectActive /\ scrollRef # 0
                 THEN CancelFrame(frames, scrollRef) ELSE frames
    /\ UNCHANGED << orders, alerts, summary, pendingWithReceiptCount, loading,
                    lastUpdateTime, tableRefreshKey, trendsRefreshKey,
                    refreshTimerRef, calls, lastResolved, factoryName,
                    factoryCode, factoryCall >>
    /\ tblOrders' = <<>>
    /\ tblRefreshKey' = 0
    /\ ordersChanged' = FALSE
    /\ effectActive' = FALSE
    /\ scrollRef' = 0
    /\ shouldScrollRef' = TRUE
    /\ isAtBottomRef' = FALSE
    /\ isAtBottom' = FALSE
    /\ scrollTop' = 0
    /\ maxScroll' = 0
    /\ cycleFires' = 0
    /\ UNCHANGED refreshCalls
    /\ UNCHANGED notPageVars

(***************************************************************************)
(* DispatchPage: the bottom-reached handler.                               *)
(***************************************************************************)
\* a handler that leaves the trends key alone
handleTableRefresh_TableKeyOnly ==
    /\ tableRefreshKey' = SetState(tableRefreshKey, tableRefreshKey + 1)
    /\ UNCHANGED trendsRefreshKey
    /\ loadDataStart

handleTableRefresh ==
    /\ tableRefreshKey' = SetState(tableRefreshKey, tableRefreshKey + 1)
    /\ trendsRefreshKey' = SetState(trendsRefreshKey, trendsRefreshKey + 1)
    /\ loadDataStart

(***************************************************************************)
(* ShippingTable.                                                          *)
(***************************************************************************)
\* containerRef.current: the scroll container exists only in the non-empty
\* rendering of a mounted table
ContainerMounted == Mounted /\ Len(tblOrders) > 0

\* scrollHeight - clientHeight of the container: a list that fits the
\* viewport, or one that exceeds the bottom threshold by MaxExtraScroll
MaxScrolls == { 0, BOTTOM_THRESHOLD + MaxExtraScroll }

\* positions a manual scroll can leave the container at
ScrollTargets ==
    { p \in { 0, scrollTop, maxScroll - BOTTOM_THRESHOLD, maxScroll } :
        0 <= p /\ p <= maxScroll }

AtBottomThreshold(top) == top >= maxScroll - BOTTOM_THRESHOLD

\* the shared branch without shouldScrollRef.current = false
reachBottom_KeepsScrolling ==
    /\ UNCHANGED shouldScrollRef
    /\ isAtBottomRef' = TRUE
    /\ isAtBottom' = TRUE
    /\ handleTableRefresh
    /\ cycleFires' = cycleFires + 1
    /\ refreshCalls' = refreshCalls + 1

\* the branch handleScroll and animate share once the threshold is reached:
\* shouldScrollRef, isAtBottomRef, setIsAtBottom(true), onRefresh?.()
reachBottom ==
    /\ shouldScrollRef' = FALSE
    /\ isAtBottomRef' = TRUE
    /\ isAtBottom' = TRUE
    /\ handleTableRefresh
    /\ cycleFires' = cycleFires + 1
    /\ refreshCalls' = refreshCalls + 1

\* the effect without its cleanup and without the cancellation in its body
scrollEffect_NoCancel(ordersProp, layoutMax) ==
    IF Len(ordersProp) = 0
    THEN /\ frames' = frames
         /\ effectActive' = FALSE
         /\ scrollTop' = 0
         /\ maxScroll' = 0
         /\ UNCHANGED << scrollRef, shouldScrollRef, isAtBottomRef,
                         isAtBottom, cycleFires >>
    ELSE LET f == NewHandle(frames, scrollRef)
         IN  /\ shouldScrollRef' = TRUE
             /\ isAtBottomRef' = FALSE
             /\ isAtBottom' = FALSE
             /\ scrollTop' = 0
             /\ maxScroll' = layoutMax
             /\ scrollRef' = f
             /\ frames' = frames \cup {f}
             /\ effectActive' = TRUE
             /\ cycleFires' = 0

\* the effect without the early return on an empty list
scrollEffect_NoEmptyGuard(ordersProp, layoutMax) ==
    LET afterCleanup == IF effectActive /\ scrollRef # 0
                        THEN CancelFrame(frames, scrollRef) ELSE frames
        cancelled == IF scrollRef # 0
                     THEN CancelFrame(afterCleanup, scrollRef)
                     ELSE afterCleanup
        f == NewHandle(cancelled, scrollRef)
    IN  /\ shouldScrollRef' = TRUE
        /\ isAtBottomRef' = FALSE
        /\ isAtBottom' = FALSE
        /\ scrollTop' = 0
        /\ maxScroll' = IF Len(ordersProp) = 0 THEN 0 ELSE layoutMax
        /\ scrollRef' = f
        /\ frames' = cancelled \cup {f}
        /\ effectActive' = TRUE
        /\ cycleFires' = 0

\* the effect on [orders, autoScroll, onRefresh, refreshKey]: the cleanup of
\* the previous run, then the body, for the orders prop `ordersProp` and a
\* container laid out with scroll range `layoutMax`
scrollEffect(ordersProp, layoutMax) ==
    LET afterCleanup == IF effectActive /\ scrollRef # 0
                        THEN CancelFrame(frames, scrollRef) ELSE frames
    IN  IF Len(ordersProp) = 0
        THEN /\ frames' = afterCleanup
             /\ effectActive' = FALSE
             /\ scrollTop' = 0
             /\ maxScroll' = 0
             /\ UNCHANGED << scrollRef, shouldScrollRef, isAtBottomRef,
                             isAtBottom, cycleFires >>
        ELSE LET cancelled == IF scrollRef # 0
                              THEN CancelFrame(afterCleanup, scrollRef)
                              ELSE afterCleanup
                 f == NewHandle(cancelled, scrollRef)
             IN  /\ shouldScrollRef' = TRUE
                 /\ isAtBottomRef' = FALSE
                 /\ isAtBottom' = FALSE
                 /\ scrollTop' = 0
                 /\ maxScroll' = layoutMax
                 /\ scrollRef' = f
                 /\ frames' = cancelled \cup {f}
                 /\ effectActive' = TRUE
                 /\ cycleFires' = 0

\* React re-renders after setOrders or setTableRefreshKey: the table gets
\* its new props, the container is laid out, and the effect runs again
\* because a dependency (the orders array or refreshKey) has changed
Render ==
    /\ Mounted
    /\ ordersChanged \/ tblRefreshKey # tableRefreshKey
    /\ tblOrders' = orders
    /\ tblRefreshKey' = tableRefreshKey
    /\ ordersChanged' = FALSE
    /\ \E layoutMax \in MaxScrolls : scrollEffect(orders, layoutMax)
    /\ UNCHANGED pageVars
    /\ UNCHANGED refreshCalls
    /\ UNCHANGED notPageVars

\* animate without the requestAnimationFrame that re-schedules it
AnimationFrame_NoReschedule(f) ==
    /\ f \in frames
    /\ IF ~ContainerMounted \/ ~shouldScrollRef
       THEN /\ frames' = frames \ {f}
            /\ UNCHANGED << scrollTop, scrollRef, shouldScrollRef,
                            isAtBottomRef, isAtBottom, cycleFires,
                            refreshCalls, tableRefreshKey, trendsRefreshKey,
                            calls, loading >>
       ELSE IF AtBottomThreshold(scrollTop)
            THEN /\ Len(calls) < MaxLoads
                 /\ frames' = frames \ {f}
                 /\ reachBottom
                 /\ UNCHANGED << scrollTop, scrollRef >>
            ELSE /\ scrollTop' = IF scrollTop + SCROLL_SPEED > maxScroll
                                 THEN maxScroll
                                 ELSE scrollTop + SCROLL_SPEED
                 /\ UNCHANGED scrollRef
                 /\ frames' = frames \ {f}
                 /\ UNCHANGED << shouldScrollRef, isAtBottomRef,
                                 isAtBottom, cycleFires, refreshCalls,
                                 tableRefreshKey, trendsRefreshKey,
                                 calls, loading >>
    /\ UNCHANGED << phase, orders, alerts, summary, pendingWithReceiptCount,
                    lastUpdateTime, refreshTimerRef, timers, lastResolved,
                    factoryName, factoryCode, factoryCall >>
    /\ UNCHANGED << tblOrders, tblRefreshKey, ordersChanged, effectActive,
                    maxScroll >>
    /\ UNCHANGED notPageVars

\* the browser runs the frame callback f: animate
AnimationFrame(f) ==
    /\ f \in frames
    /\ IF ~ContainerMounted \/ ~shouldScrollRef
       THEN /\ frames' = frames \ {f}
            /\ UNCHANGED << scrollTop, scrollRef, shouldScrollRef,
                            isAtBottomRef, isAtBottom, cycleFires,
                            refreshCalls, tableRefreshKey, trendsRefreshKey,
                            calls, loading >>
       ELSE IF AtBottomThreshold(scrollTop)
            THEN /\ Len(calls) < MaxLoads
                 /\ frames' = frames \ {f}
                 /\ reachBottom
                 /\ UNCHANGED << scrollTop, scrollRef >>
            ELSE LET g == NewHandle(frames \ {f}, scrollRef)
                 IN  /\ scrollTop' = IF scrollTop + SCROLL_SPEED > maxScroll
                                     THEN maxScroll
                                     ELSE scrollTop + SCROLL_SPEED
                     /\ scrollRef' = g
                     /\ frames' = (frames \ {f}) \cup {g}
                     /\ UNCHANGED << shouldScrollRef, isAtBottomRef,
                                     isAtBottom, cycleFires, refreshCalls,
                                     tableRefreshKey, trendsRefreshKey,
                                     calls, loading >>
    /\ UNCHANGED << phase, orders, alerts, summary, pendingWithReceiptCount,
                    lastUpdateTime, refreshTimerRef, timers, lastResolved,
                    factoryName, factoryCode, factoryCall >>
    /\ UNCHANGED << tblOrders, tblRefreshKey, ordersChanged, effectActive,
                    maxScroll >>
    /\ UNCHANGED notPageVars

\* a scroll event with the container at position p: handleScroll
ManualScroll(p) ==
    /\ ContainerMounted
    /\ p \in ScrollTargets
    /\ scrollTop' = p
    /\ IF shouldScrollRef /\ AtBottomThreshold(p)
       THEN /\ Len(calls) < MaxLoads
            /\ reachBottom
       ELSE UNCHANGED << shouldScrollRef, isAtBottomRef, isAtBottom,
                         cycleFires, refreshCalls, tableRefreshKey,
                         trendsRefreshKey, calls, loading >>
    /\ UNCHANGED << phase, orders, alerts, summary, pendingWithReceiptCount,
                    lastUpdateTime, refreshTimerRef, timers, lastResolved,
                    factoryName, factoryCode, factoryCall >>
    /\ UNCHANGED << frames, tblOrders, tblRefreshKey, ordersChanged,
                    effectActive, scrollRef, maxScroll >>
    /\ UNCHANGED notPageVars

(***************************************************************************)
(* FetchHttp: the HTTP client.                                             *)
(***************************************************************************)
\* String.prototype.includes
Includes(s, sub) ==
    \E i \in 1..(Len(s) - Len(sub) + 1) : SubSeq(s, i, i + Len(sub) - 1) = sub

UpperCase == "ABCDEFGHIJKLMNOPQRSTUVWXYZ"
LowerCase == "abcdefghijklmnopqrstuvwxyz"

\* String.prototype.toLowerCase on ASCII text
RECURSIVE ToLowerCase(_)
ToLowerCase(s) ==
    IF s = "" THEN ""
    ELSE LET c == CharAt(s, 1)
             lc == IF \E i \in 1..26 : CharAt(UpperCase, i) = c
                   THEN CharAt(LowerCase,
                               CHOOSE i \in 1..26 : CharAt(UpperCase, i) = c)
                   ELSE c
         IN  lc \o ToLowerCase(SubSeq(s, 2, Len(s)))

\* template-literal conversion of a value to a string
JsToString(v) ==
    CASE v.t = "string" -> v.s
      [] v.t = "number" -> IF v.nan THEN "NaN" ELSE NumToString(v.n)
      [] v.t = "boolean" -> IF v.b THEN "true" ELSE "false"
      [] v.t = "null" -> "null"
      [] v.t = "undefined" -> "undefined"
      [] OTHER -> "[object Object]"

\* The messages of the source are Chinese text; each is rendered here by an
\* ASCII string of the same meaning.  None of them contains a fragment
\* isRetryableError looks for, in either rendering.
MSG_URL_EMPTY == "request URL must not be empty"
MSG_REQUEST_ERROR == "request error: "
MSG_SERVER_ERROR == "server error: "
MSG_BAD_FORMAT == "response format error: expected a JSON object"
MSG_TIMED_OUT == "request timed out"
MSG_UNKNOWN == "unknown error"
MSG_REQUEST_FAILED == "request failed"

defaultRetry == 3
defaultRetryDelay == 1000

\* new FetchError(message, code, status, requestId, isNetworkError)
FetchError(message, code, status, id, isNetworkError) ==
    [isError |-> TRUE, name |-> "FetchError", message |-> message,
     code |-> code, status |-> status, requestId |-> id,
     isNetworkError |-> isNetworkError]

\* an Error that is not a FetchError: the TypeError of a failed fetch, the
\* AbortError of an aborted one, the SyntaxError of response.json()
JsError(name, message) == [isError |-> TRUE, name |-> name, message |-> message]

IsFetchError(e) == e.isError /\ e.name = "FetchError"

isRetryableError(error) ==
    IF IsFetchError(error) THEN error.isNetworkError
    ELSE IF error.isError
         THEN \/ Includes(error.message, "fetch failed")
              \/ Includes(error.message, "network")
              \/ Includes(ToLowerCase(error.message), "timeout")
              \/ Includes(error.message, "Failed to fetch")
              \/ Includes(error.message, "NetworkError")
              \/ Includes(error.message, "ECONNREFUSED")
              \/ Includes(error.message, "ENOTFOUND")
         ELSE FALSE

\* a success test that accepts the numeric codes only
isSuccess_NumbersOnly(code) == code \in { JNum(0), JNum(200) }

\* code === 0 || code === 200 || code === '0' || code === '200' ||
\* code === 'success'
isSuccess(code) ==
    code \in { JNum(0), JNum(200), JStr("0"), JStr("200"), JStr("success") }

\* a parsed JSON object with the fields of the envelope
Envelope(code, msg, data) ==
    [t |-> "object", code |-> code, msg |-> msg, data |-> data]

\* result.code, result.msg, result.data: undefined on a value that is not
\* an object
PropertyOf(v, field) == IF v.t = "object" THEN v[field] ELSE Undefined

\* a response: status, statusText, whether its content type is JSON, and
\* its body (the parsed JSON value, or the text)
Response(status, statusText, json, body) ==
    [status |-> status, statusText |-> statusText, json |-> json,
     body |-> body]

Return(v) == [kind |-> "value", value |-> v]
Throw(e) == [kind |-> "error", error |-> e]

\* a try block whose 4xx error is flagged as a network error
handleResponse_ClientErrorRetryable(response, unwrapOpt) ==
    IF ~(response.status >= 200 /\ response.status <= 299)
    THEN IF response.status >= 400 /\ response.status < 500
         THEN Throw(FetchError(MSG_REQUEST_ERROR
                                 \o NumToString(response.status) \o " "
                                 \o response.statusText,
                               Undefined, JNum(response.status),
                               requestId, TRUE))
         ELSE Throw(FetchError(MSG_SERVER_ERROR
                                 \o NumToString(response.status) \o " "
                                 \o response.statusText,
                               Undefined, JNum(response.status),
                               requestId, TRUE))
    ELSE IF ~response.json
    THEN IF unwrapOpt
         THEN Return(response.body)
         ELSE Throw(JsError("SyntaxError", "Unexpected token in JSON"))
    ELSE LET result == response.body
         IN  IF ~unwrapOpt
             THEN Return(result)
             ELSE IF Truthy(result) /\ result.t # "object"
             THEN Throw(FetchError(MSG_BAD_FORMAT, Undefined,
                                   JNum(response.status), requestId, FALSE))
             ELSE IF result.t = "null"
             THEN Throw(JsError("TypeError",
                                "Cannot read properties of null"))
             ELSE LET code == PropertyOf(result, "code")
                      msg == PropertyOf(result, "msg")
                  IN  IF ~isSuccess(code)
                      THEN Throw(FetchError(
                                   JsToString(JsOr(msg,
                                       JStr("API Error: "
                                            \o JsToString(code)))),
                                   code, JNum(response.status), requestId,
                                   FALSE))
                      ELSE Return(PropertyOf(result, "data"))

\* the try block of one attempt from the resolved fetch on: what it returns
\* or throws for `response`
handleResponse(response, unwrapOpt) ==
    IF ~(response.status >= 200 /\ response.status <= 299)
    THEN IF response.status >= 400 /\ response.status < 500
         THEN Throw(FetchError(MSG_REQUEST_ERROR
                                 \o NumToString(response.status) \o " "
                                 \o response.statusText,
                               Undefined, JNum(response.status),
                               requestId, FALSE))
         ELSE Throw(FetchError(MSG_SERVER_ERROR
                                 \o NumToString(response.status) \o " "
                                 \o response.statusText,
                               Undefined, JNum(response.status),
                               requestId, TRUE))
    ELSE IF ~response.json
    THEN IF unwrapOpt
         THEN Return(response.body)
         ELSE Throw(JsError("SyntaxError", "Unexpected token in JSON"))
    ELSE LET result == response.body
         IN  IF ~unwrapOpt
             THEN Return(result)
             ELSE IF Truthy(result) /\ result.t # "object"
             THEN Throw(FetchError(MSG_BAD_FORMAT, Undefined,
                                   JNum(response.status), requestId, FALSE))
             ELSE IF result.t = "null"
             THEN Throw(JsError("TypeError",
                                "Cannot read properties of null"))
             ELSE LET code == PropertyOf(result, "code")
                      msg == PropertyOf(result, "msg")
                  IN  IF ~isSuccess(code)
                      THEN Throw(FetchError(
                                   JsToString(JsOr(msg,
                                       JStr("API Error: "
                                            \o JsToString(code)))),
                                   code, JNum(response.status), requestId,
                                   FALSE))
                      ELSE Return(PropertyOf(result, "data"))

\* the payload of a successful envelope
Payload == [t |-> "object", records |-> "records"]

\* what the server can answer an attempt with
HttpResponses ==
    { Response(500, "Internal Server Error", TRUE, Null),
      Response(503, "Service Unavailable", FALSE, JStr("unavailable")),
      Response(404, "Not Found", FALSE, JStr("not found")),
      Response(200, "OK", TRUE, Envelope(JNum(200), JStr("ok"), Payload)),
      Response(200, "OK", TRUE, Envelope(JNum(0), JStr("ok"), Payload)),
      Response(200, "OK", TRUE, Envelope(JStr("0"), Undefined, Null)),
      Response(200, "OK", TRUE, Envelope(JStr("200"), Undefined, Payload)),
      Response(200, "OK", TRUE, Envelope(JStr("success"), Undefined, Payload)),
      Response(200, "OK", TRUE, Envelope(JNum(500), JStr("busy"), Null)),
      Response(200, "OK", TRUE, Envelope(JNum(1), Undefined, Payload)),
      Response(200, "OK", TRUE, Envelope(JStr("SUCCESS"), JStr(""), Payload)),
      Response(200, "OK", TRUE, Envelope(JBool(TRUE), Undefined, Payload)),
      Response(200, "OK", TRUE, Envelope(Null, Undefined, Payload)),
      Response(200, "OK", TRUE, Envelope(Undefined, Undefined, Undefined)),
      Response(200, "OK", TRUE, Null),
      Response(200, "OK", FALSE, JStr("plain text")) }

\* what a fetch can reject with: the TypeError of a network failure and the
\* AbortError raised when controller.abort() of the timeout aborts the
\* request; the message of either depends on the browser (Chromium, Firefox
\* and Safari in turn)
FetchRejections ==
    { JsError("TypeError", "Failed to fetch"),
      JsError("TypeError", "NetworkError when attempting to fetch resource."),
      JsError("TypeError", "Load failed"),
      JsError("AbortError", "signal is aborted without reason"),
      JsError("AbortError", "The operation was aborted. "),
      JsError("AbortError", "Fetch is aborted") }

HttpUrls == { "", "/dispatch/board" }

\* ids generateRequestId() can produce (time stamp and random suffix)
RequestIds == { "req_1_a", "req_2_b" }

HttpOptions ==
    [unwrap : BOOLEAN, retry : { 0, 1, defaultRetry },
     retryDelay : { defaultRetryDelay }]

\* the request settles: its promise resolves or rejects
settle(outcome) ==
    /\ httpPc' = "settled"
    /\ httpResult' = outcome
    /\ sleepTimer' = -1

\* a catch block that gives up one attempt early
handleError_OneAttemptShort(error) ==
    IF IsFetchError(error) /\ ~error.isNetworkError
    THEN settle(Throw(error)) /\ UNCHANGED << lastError, sinceFailure >>
    ELSE /\ lastError' = error
         /\ IF attempt + 1 < retry /\ isRetryableError(error)
            THEN /\ httpPc' = "sleeping"
                 /\ sleepTimer' = retryDelay
                 /\ sinceFailure' = 0
                 /\ UNCHANGED httpResult
            ELSE /\ UNCHANGED sinceFailure
                 /\ IF error.isError
                    THEN IF error.name = "AbortError"
                         THEN settle(Throw(FetchError(MSG_TIMED_OUT, Undefined,
                                           Undefined, requestId,
                                           FALSE)))
                         ELSE IF IsFetchError(error)
                         THEN settle(Throw(error))
                         ELSE settle(Throw(FetchError(error.message, Undefined,
                                           Undefined, requestId,
                                           TRUE)))
                    ELSE settle(Throw(FetchError(MSG_UNKNOWN, Undefined,
                                                 Undefined, requestId, TRUE)))

\* a catch block that rethrows what it caught once it gives up
handleError_RethrowsCaught(error) ==
    IF IsFetchError(error) /\ ~error.isNetworkError
    THEN settle(Throw(error)) /\ UNCHANGED << lastError, sinceFailure >>
    ELSE /\ lastError' = error
         /\ IF attempt < retry /\ isRetryableError(error)
            THEN /\ httpPc' = "sleeping"
                 /\ sleepTimer' = retryDelay
                 /\ sinceFailure' = 0
                 /\ UNCHANGED httpResult
            ELSE /\ UNCHANGED sinceFailure
                 /\ settle(Throw(error))

\* the catch block of the attempt, for the thrown `error`
handleError(error) ==
    IF IsFetchError(error) /\ ~error.isNetworkError
    THEN settle(Throw(error)) /\ UNCHANGED << lastError, sinceFailure >>
    ELSE /\ lastError' = error
         /\ IF attempt < retry /\ isRetryableError(error)
            THEN /\ httpPc' = "sleeping"
                 /\ sleepTimer' = retryDelay
                 /\ sinceFailure' = 0
                 /\ UNCHANGED httpResult
            ELSE /\ UNCHANGED sinceFailure
                 /\ IF error.isError
                    THEN IF error.name = "AbortError"
                         THEN settle(Throw(FetchError(MSG_TIMED_OUT, Undefined,
                                           Undefined, requestId,
                                           FALSE)))
                         ELSE IF IsFetchError(error)
                         THEN settle(Throw(error))
                         ELSE settle(Throw(FetchError(error.message, Undefined,
                                           Undefined, requestId,
                                           TRUE)))
                    ELSE settle(Throw(FetchError(MSG_UNKNOWN, Undefined,
                                                 Undefined, requestId, TRUE)))

\* request(url, options) up to the first await: an empty url throws at once
HttpRequest(url, options) ==
    /\ httpPc = "idle"
    /\ requestId' \in RequestIds
    /\ unwrap' = options.unwrap
    /\ retry' = options.retry
    /\ retryDelay' = options.retryDelay
    /\ attempt' = 0
    /\ IF url = ""
       THEN settle(Throw(FetchError(MSG_URL_EMPTY, Undefined, Undefined,
                                    requestId', FALSE)))
       ELSE /\ httpPc' = "fetching"
            /\ UNCHANGED << httpResult, sleepTimer >>
    /\ UNCHANGED << lastError, httpLog, sinceFailure >>
    /\ UNCHANGED notHttpVars

\* the fetch of the attempt resolves with `response`
FetchResponds(response) ==
    /\ httpPc = "fetching"
    /\ httpLog' = Append(httpLog, response)
    /\ LET outcome == handleResponse(response, unwrap)
       IN  IF outcome.kind = "value"
           THEN settle(outcome) /\ UNCHANGED << lastError, sinceFailure >>
           ELSE handleError(outcome.error)
    /\ UNCHANGED << requestId, unwrap, retry, retryDelay, attempt >>
    /\ UNCHANGED notHttpVars

\* the fetch of the attempt rejects with `error`: the network failed, or
\* the timeout aborted the request
FetchRejects(error) ==
    /\ httpPc = "fetching"
    /\ httpLog' = Append(httpLog, error)
    /\ handleError(error)
    /\ UNCHANGED << requestId, unwrap, retry, retryDelay, attempt >>
    /\ UNCHANGED notHttpVars

\* TickMs of time pass while the request sleeps
HttpTick ==
    /\ httpPc = "sleeping"
    /\ sleepTimer > 0
    /\ sleepTimer' = IF sleepTimer > TickMs THEN sleepTimer - TickMs ELSE 0
    /\ sinceFailure' = IF sinceFailure + TickMs > retryDelay
                       THEN retryDelay ELSE sinceFailure + TickMs
    /\ UNCHANGED << httpPc, requestId, unwrap, retry, retryDelay, attempt,
                    lastError, httpResult, httpLog >>
    /\ UNCHANGED notHttpVars

\* the timer of sleep() fires: `continue`, attempt++, and the loop test
SleepDone ==
    /\ httpPc = "sleeping"
    /\ sleepTimer = 0
    /\ attempt' = attempt + 1
    /\ IF attempt + 1 <= retry
       THEN /\ httpPc' = "fetching"
            /\ sleepTimer' = -1
            /\ UNCHANGED httpResult
       ELSE IF IsFetchError(lastError)
            THEN settle(Throw(lastError))
            ELSE settle(Throw(FetchError(MSG_REQUEST_FAILED, Undefined,
                                         Undefined, requestId, TRUE)))
    /\ UNCHANGED << requestId, unwrap, retry, retryDelay, lastError,
                    httpLog, sinceFailure >>
    /\ UNCHANGED notHttpVars

(***************************************************************************)
(* The dispatch API client: fetchDispatchBoard.                            *)
(***************************************************************************)
\* DispatchPage imports fetchDispatchBoard from '../api'.  The repository
\* holds two modules that export it: api/dispatchBoard.ts, which calls the
\* browser's fetch itself, and a second one (part_006) which calls
\* fetchHttp.post.  Which of them the build resolves '../api' to is not
\* fixed by the sources.
ApiModules == { "dispatchBoard.ts", "part_006" }

\* the page object inside a successful envelope
PageData(content) == [t |-> "object", content |-> content]

EmptyObject == [t |-> "object"]

\* data?.content || data?.items || []  (an array is truthy also when empty;
\* no response of the model carries items)
pageContent(data) ==
    IF data.t = "object" /\ "content" \in DOMAIN data
       /\ data.content # Undefined
    THEN data.content
    ELSE <<>>

\* api/dispatchBoard.ts: fetchDispatchBoard from the resolved fetch on
fetchDispatchBoardRaw(response) ==
    IF ~(response.status >= 200 /\ response.status <= 299)
    THEN Throw(JsError("Error", "HTTP error! status: "
                                  \o NumToString(response.status)))
    ELSE IF ~response.json
    THEN Throw(JsError("SyntaxError", "Unexpected token in JSON"))
    ELSE LET result == response.body
             data == IF result.t = "null" THEN Undefined
                     ELSE PropertyOf(result, "data")
             pageData == JsOr(data, EmptyObject)
         IN  Return(pageContent(pageData))

\* part_006: fetchDispatchBoard from the settled fetchHttp.post on
fetchDispatchBoardHttp(outcome) ==
    IF outcome.kind = "error"
    THEN Throw(outcome.error)
    ELSE Return(pageContent(outcome.value))

\* what the dispatch-list endpoint can answer
DispatchResponses ==
    { Response(200, "OK", TRUE, Envelope(JNum(200), JStr("ok"), PageData(R))) :
        R \in RecordSets }
    \cup
    { Response(200, "OK", TRUE, Envelope(JNum(500), JStr("busy"), Null)),
      Response(200, "OK", TRUE, Envelope(JNum(200), JStr("ok"), Null)),
      Response(404, "Not Found", FALSE, JStr("not found")),
      Response(500, "Internal Server Error", TRUE, Null) }

\* the dispatch-list request of loadData call c is answered with `response`
\* (for part_006, the response that ends the request of the HTTP client,
\* whose unwrap option is on by default)
DispatchAnswered(c, response, now) ==
    /\ apiModule \in ApiModules
    /\ LET outcome ==
               IF apiModule = "dispatchBoard.ts"
               THEN fetchDispatchBoardRaw(response)
               ELSE fetchDispatchBoardHttp(handleResponse(response, TRUE))
       IN  IF outcome.kind = "value"
           THEN loadDataResolved(c, outcome.value, now)
           ELSE loadDataRejected(c)
    /\ lastDispatch' = [call |-> c, response |-> response]
    /\ UNCHANGED << apiModule, httpVars, pureVars, trendsVars >>

(***************************************************************************)
(* The Trends panel (components/Trends.tsx), rendered by the page with     *)
(* factoryCode and trendsRefreshKey as props.                              *)
(***************************************************************************)
\* the text of setError (a Chinese literal in the source, "loading
\* failed"), written in ASCII here
MSG_LOAD_FAILED == "load-failed"

\* the effect of Trends, which runs after the first render and after every
\* render with another factoryCode or refreshKey: fetchTrendData up to its
\* await
TrendsEffect ==
    /\ Mounted
    /\ trends.deps # << factoryCode, trendsRefreshKey >>
    /\ trends' = [trends EXCEPT !.deps = << factoryCode, trendsRefreshKey >>,
                                !.loading = TRUE,
                                !.error = Null,
                                !.inflight = @ + 1]
    /\ UNCHANGED << pageVars, tableVars, httpVars, apiVars, pureVars >>

\* a catch block that logs only
trendsFailure_Silent ==
    [trends EXCEPT !.loading = SetState(@, FALSE), !.inflight = @ - 1]

\* the catch block of fetchTrendData: setError, the sample data, and the
\* finally block
trendsFailure ==
    [trends EXCEPT !.error = SetState(@, JStr(MSG_LOAD_FAILED)),
                   !.data = SetState(@, "sample"),
                   !.loading = SetState(@, FALSE),
                   !.inflight = @ - 1]

\* the browser answers a fetch of fetchTrendData, which goes through
\* fetchDispatchBoard of api/dispatchBoard.ts; the chart data are the
\* counts per day of the content
TrendsAnswered(response) ==
    /\ trends.inflight > 0
    /\ trends' =
           IF fetchDispatchBoardRaw(response).kind = "value"
           THEN [trends EXCEPT !.data = SetState(@, "fetched"),
                               !.loading = SetState(@, FALSE),
                               !.inflight = @ - 1]
           ELSE trendsFailure
    /\ UNCHANGED << pageVars, tableVars, httpVars, apiVars, pureVars >>

\* the fetch of fetchTrendData rejects (no connection)
TrendsFetchRejects ==
    /\ trends.inflight > 0
    /\ trends' = trendsFailure
    /\ UNCHANGED << pageVars, tableVars, httpVars, apiVars, pureVars >>

\* {error && <div ...>{error} ...</div>}: the notice above the chart
ErrorNoticeVisible == Mounted /\ Truthy(trends.error)

(***************************************************************************)
(* The page specification.                                                 *)
(***************************************************************************)
HttpInit ==
    /\ httpPc = "idle"
    /\ requestId = ""
    /\ unwrap = TRUE
    /\ retry = defaultRetry
    /\ retryDelay = defaultRetryDelay
    /\ attempt = 0
    /\ lastError = Undefined
    /\ sleepTimer = -1
    /\ httpResult = [kind |-> "none"]
    /\ httpLog = <<>>
    /\ sinceFailure = 0

\* '../api' is not resolved in the page and HTTP client specifications
ApiInit ==
    /\ apiModule = "unresolved"
    /\ lastDispatch = [call |-> 0, response |-> Null]

PureInit == pureCall = [fn |-> "none"]

PageInit ==
    /\ phase = "init"
    /\ orders = <<>>
    /\ alerts = <<>>
    /\ summary = EmptySummary
    /\ pendingWithReceiptCount = 0
    /\ loading = TRUE
    /\ lastUpdateTime = ""
    /\ tableRefreshKey = 0
    /\ trendsRefreshKey = 0
    /\ refreshTimerRef = 0
    /\ factoryName = ""
    /\ factoryCode = ""
    /\ factoryCall = [st |-> "none", code |-> ""]
    /\ timers = {}
    /\ frames = {}
    /\ calls = <<>>
    /\ tblOrders = <<>>
    /\ tblRefreshKey = 0
    /\ ordersChanged = FALSE
    /\ effectActive = FALSE
    /\ scrollRef = 0
    /\ shouldScrollRef = TRUE
    /\ isAtBottomRef = FALSE
    /\ isAtBottom = FALSE
    /\ scrollTop = 0
    /\ maxScroll = 0
    /\ lastResolved = [id |-> 0, records |-> <<>>, stale |-> FALSE]
    /\ cycleFires = 0
    /\ refreshCalls = 0

TrendsInit ==
    trends = [deps |-> << >>, loading |-> TRUE, error |-> Null,
              data |-> "initial", inflight |-> 0]

Init == HttpInit /\ PageInit /\ ApiInit /\ PureInit /\ TrendsInit

Next ==
    \/ \E search \in UrlSearches, env \in EnvFactoryCodes : Mount(search, env)
    \/ \E res \in FactoryResponses : FactoryResolve(res)
    \/ FactoryReject
    \/ Unmount
    \/ \E c \in 1..Len(calls), records \in RecordSets,
          now \in WallClockReadings : LoadDataResolve(c, records, now)
    \/ \E c \in 1..Len(calls) : LoadDataReject(c)
    \/ \E id \in TimerIds : TimerTick(id)
    \/ Render
    \/ \E f \in frames : AnimationFrame(f)
    \/ \E p \in ScrollTargets : ManualScroll(p)

Spec == Init /\ [][Next]_vars

(***************************************************************************)
(* The HTTP client specification: one request, the page at rest.           *)
(***************************************************************************)
NextHttp ==
    \/ \E url \in HttpUrls, options \in HttpOptions : HttpRequest(url, options)
    \/ \E response \in HttpResponses : FetchResponds(response)
    \/ \E error \in FetchRejections : FetchRejects(error)
    \/ HttpTick
    \/ SleepDone

SpecHttp == Init /\ [][NextHttp]_vars

(***************************************************************************)
(* The page on top of the dispatch API client: the completions of loadData *)
(* are those fetchDispatchBoard produces from the endpoint's answers.      *)
(***************************************************************************)
InitApi ==
    /\ HttpInit
    /\ PageInit
    /\ PureInit
    /\ TrendsInit
    /\ apiModule \in ApiModules
    /\ lastDispatch = [call |-> 0, response |-> Null]

NextApi ==
    \/ \E search \in UrlSearches, env \in EnvFactoryCodes : Mount(search, env)
    \/ \E c \in 1..Len(calls), response \in DispatchResponses,
          now \in WallClockReadings : DispatchAnswered(c, response, now)
    \/ \E id \in TimerIds : TimerTick(id)
    \/ Render
    \/ \E f \in frames : AnimationFrame(f)
    \/ \E p \in ScrollTargets : ManualScroll(p)

SpecApi == InitApi /\ [][NextApi]_vars

(***************************************************************************)
(* The page and its table with no one touching the screen: the browser     *)
(* runs every animation frame that is requested.                           *)
(***************************************************************************)
NextScroll ==
    \/ \E search \in UrlSearches, env \in EnvFactoryCodes : Mount(search, env)
    \/ Unmount
    \/ \E c \in 1..Len(calls), records \in RecordSets,
          now \in WallClockReadings : LoadDataResolve(c, records, now)
    \/ \E c \in 1..Len(calls) : LoadDataReject(c)
    \/ \E id \in TimerIds : TimerTick(id)
    \/ Render
    \/ \E f \in frames : AnimationFrame(f)

SpecScroll ==
    Init /\ [][NextScroll]_vars /\ WF_vars(\E f \in frames : AnimationFrame(f))

(***************************************************************************)
(* The page together with its Trends panel.                                *)
(***************************************************************************)
\* the table invokes its onRefresh prop.  The scroll state of the table and
\* the polling timer's ticks are left out of this specification: the
\* callback can come whenever the list is non-empty.
TableCallsOnRefresh ==
    /\ Mounted
    /\ Len(orders) > 0
    /\ trendsRefreshKey < MaxTrendsRefreshes
    /\ handleTableRefresh
    /\ refreshCalls' = refreshCalls + 1
    /\ UNCHANGED << phase, orders, alerts, summary, pendingWithReceiptCount,
                    lastUpdateTime, refreshTimerRef, timers, lastResolved,
                    factoryName, factoryCode, factoryCall >>
    /\ UNCHANGED << frames, tblOrders, tblRefreshKey, ordersChanged,
                    effectActive, scrollRef, shouldScrollRef, isAtBottomRef,
                    isAtBottom, scrollTop, maxScroll, cycleFires >>
    /\ UNCHANGED notPageVars

NextTrends ==
    \/ \E search \in UrlSearches, env \in EnvFactoryCodes : Mount(search, env)
    \/ \E res \in FactoryResponses : FactoryResolve(res)
    \/ FactoryReject
    \/ Unmount
    \/ \E c \in 1..Len(calls), records \in RecordSets,
          now \in WallClockReadings : LoadDataResolve(c, records, now)
    \/ \E c \in 1..Len(calls) : LoadDataReject(c)
    \/ TableCallsOnRefresh
    \/ TrendsEffect
    \/ \E response \in DispatchResponses : TrendsAnswered(response)
    \/ TrendsFetchRejects

SpecTrends == Init /\ [][NextTrends]_vars

(***************************************************************************)
(* The pure functions of the page, each applied to one input.              *)
(***************************************************************************)
\* what orders' isDelivered can hold when it comes out of JSON.parse
DeliveredFlags ==
    { Undefined, Null, JBool(TRUE), JBool(FALSE), NaN }
    \cup { JNum(n) : n \in -1..2 }
    \cup { JStr(str) : str \in { "0", "1", "2", "00", "10", " 1 ", "-1", "+1",
                                 "", " ", "abc", "true", "false", "1abc",
                                 "0.5", "1.0", "0.0", "0x10" } }

\* the call pureCall describes has not returned yet / has returned
Pending(fn) == pureCall.fn = fn /\ "ret" \notin DOMAIN pureCall
Applied(fn) == pureCall.fn = fn /\ "ret" \in DOMAIN pureCall

GetOrderStatusCall ==
    /\ Pending("getOrderStatus")
    /\ pureCall' = [fn |-> "getOrderStatus", arg |-> pureCall.arg,
                    ret |-> getOrderStatus(pureCall.arg)]
    /\ UNCHANGED notPureVars

\* record sequences for transformAlerts: a record, a run of delayed records
\* without receipt, another record, a second run; the sheet number of a
\* record tells its position
Renumbered(records) ==
    [i \in 1..Len(records) |->
        [records[i] EXCEPT !.sheetNo = JStr("N" \o NumToString(i))]]

OtherRecords ==
    { <<>>,
      << Rec(Undefined, JBool(TRUE), Undefined, JStr("ON_TIME"), Undefined) >>,
      << Rec(Undefined, JBool(FALSE), JBool(TRUE), JStr("DELAYED"),
             JStr("2026-02-10T07:45:00")) >> }

AlertInputs ==
    { Renumbered(a \o DelayedRun(k) \o b \o DelayedRun(m)) :
        a \in OtherRecords, b \in OtherRecords,
        k \in 0..MaxDelayedRun, m \in 0..2 }

\* loadData applies transformAlerts and builds the summary from the same
\* records
TransformAlertsCall ==
    /\ Pending("transformAlerts")
    /\ pureCall' = [fn |-> "transformAlerts", arg |-> pureCall.arg,
                    ret |-> transformAlerts(pureCall.arg),
                    summary |-> computeSummary(pureCall.arg)]
    /\ UNCHANGED notPureVars

\* record sequences for the count of pending records with receipt: up to
\* two records, every combination of the two flags
FlaggedRecords ==
    { Rec(JStr("S"), d, h, JStr("ON_TIME"), Undefined) :
        d \in { JBool(FALSE), JBool(TRUE), Undefined, JNum(0), JStr("false") },
        h \in { JBool(TRUE), JBool(FALSE), Undefined } }

CountInputs ==
    { <<>> } \cup { << r >> : r \in FlaggedRecords }
    \cup { << r, q >> : r \in FlaggedRecords, q \in FlaggedRecords }

\* loadData counts the pending records with receipt
PendingWithReceiptCall ==
    /\ Pending("pendingWithReceipt")
    /\ pureCall' = [fn |-> "pendingWithReceipt", arg |-> pureCall.arg,
                    ret |-> computePendingWithReceipt(pureCall.arg)]
    /\ UNCHANGED notPureVars

\* the props the page can hand to the receipt warning
WarningProps ==
    [receiptCount : 0..MaxCount, deliveredCount : 0..MaxCount,
     pendingWithReceiptCount : 0..2]

ReceiptWarningRender ==
    /\ Pending("ReceiptWarning")
    /\ pureCall' = [fn |-> "ReceiptWarning", arg |-> pureCall.arg,
                    ret |-> ReceiptWarning(pureCall.arg.receiptCount,
                                           pureCall.arg.deliveredCount,
                                           pureCall.arg.pendingWithReceiptCount)]
    /\ UNCHANGED notPureVars

\* values of lastRecRequireTime: absent, empty, date-times, other text
TimeStrings ==
    { Undefined, Null, JStr("") }
    \cup { JStr(str) : str \in { "2026-02-10T08:05:00", "2026-02-10 14:30:00",
                                 "2026-02-10T00:00:00", "2026-02-10T23:59:59",
                                 "2026-02-10T12:60:00", "abc", "n/a", "-",
                                 " ", "08:05 tomorrow" } }

\* new Date(timeStr) and the getters do not throw, so the catch block of
\* formatTime is never entered
FormatTimeCall ==
    /\ Pending("formatTime")
    /\ pureCall' = [fn |-> "formatTime", arg |-> pureCall.arg,
                    ret |-> formatTime(pureCall.arg)]
    /\ UNCHANGED notPureVars

\* the two URL parameters, each absent, empty, blank, or a code with or
\* without blanks around it, and the build's VITE_FACTORY_CODE
FactoryCodeInputs ==
    { [search |-> [factoryCode |-> a, factorycode |-> b], env |-> e] :
        a \in { Null, JStr(""), JStr(" "), JStr("F1"), JStr(" F1 ") },
        b \in { Null, JStr(""), JStr(" "), JStr("F2"), JStr(" F2 ") },
        e \in { Undefined, JStr("ENV") } }

\* loadFactoryInfo up to the code it hands to the lookup
ResolveFactoryCodeCall ==
    /\ Pending("resolveFactoryCode")
    /\ pureCall' = [fn |-> "resolveFactoryCode", arg |-> pureCall.arg,
                    ret |-> resolveFactoryCode(pureCall.arg.search,
                                               pureCall.arg.env)]
    /\ UNCHANGED notPureVars

\* isDelivered as a boolean, a number, a numeric string, or absent
SummaryFlags ==
    { Undefined, JBool(TRUE), JBool(FALSE) }
    \cup { JNum(n) : n \in 0..2 }
    \cup { JStr(str) : str \in { "0", "1", "2", "00", "10" } }

\* record sequences for the summary: up to two records, every combination
\* of the delivered flags
SummaryInputs ==
    { <<>> }
    \cup { << Rec(JStr("S1"), d, Undefined, JStr("ON_TIME"), Undefined) >> :
               d \in SummaryFlags }
    \cup { << Rec(JStr("S1"), d, Undefined, JStr("ON_TIME"), Undefined),
              Rec(JStr("S2"), e, JBool(TRUE), JStr("DELAYED"), Undefined) >> :
               d \in SummaryFlags, e \in SummaryFlags }

\* loadData builds the order list and the summary from the same records
SummaryAndOrdersCall ==
    /\ Pending("summaryAndOrders")
    /\ pureCall' = [fn |-> "summaryAndOrders", arg |-> pureCall.arg,
                    orders |-> transformOrders(pureCall.arg),
                    ret |-> computeSummary(pureCall.arg)]
    /\ UNCHANGED notPureVars

\* values of riskFlag: the four flags of the backend, absent, and text
\* none of the cases of the switch matches
RiskFlags ==
    { Undefined, Null }
    \cup { JStr(str) : str \in { "DELAYED", "AT_RISK", "DELIVERED", "ON_TIME",
                                 "", "delayed", "Delayed", " DELAYED",
                                 "at_risk", "LOW", "HIGH", "UNKNOWN" } }

\* records for the order mapping: every risk flag with every delivered flag
OrderInputs ==
    { Rec(JStr("S1"), d, Undefined, f, Undefined) :
        d \in { JBool(TRUE), JBool(FALSE), Undefined, JNum(1), JNum(0) },
        f \in RiskFlags }

\* the callback transformOrders maps over the records
ToOrderCall ==
    /\ Pending("toOrder")
    /\ pureCall' = [fn |-> "toOrder", arg |-> pureCall.arg,
                    ret |-> toOrder(pureCall.arg)]
    /\ UNCHANGED notPureVars

\* the calls of the model: a function and its argument
PureCalls ==
    { [fn |-> "getOrderStatus", arg |-> v] : v \in DeliveredFlags }
    \cup { [fn |-> "transformAlerts", arg |-> R] : R \in AlertInputs }
    \cup { [fn |-> "pendingWithReceipt", arg |-> R] : R \in CountInputs }
    \cup { [fn |-> "ReceiptWarning", arg |-> props] : props \in WarningProps }
    \cup { [fn |-> "summaryAndOrders", arg |-> R] : R \in SummaryInputs }
    \cup { [fn |-> "toOrder", arg |-> r] : r \in OrderInputs }
    \cup { [fn |-> "formatTime", arg |-> t] : t \in TimeStrings }
    \cup { [fn |-> "resolveFactoryCode", arg |-> input] :
               input \in FactoryCodeInputs }

InitPure ==
    /\ HttpInit
    /\ PageInit
    /\ ApiInit
    /\ TrendsInit
    /\ pureCall \in PureCalls

NextPure ==
    \/ GetOrderStatusCall
    \/ TransformAlertsCall
    \/ PendingWithReceiptCall
    \/ SummaryAndOrdersCall
    \/ ToOrderCall
    \/ ReceiptWarningRender
    \/ FormatTimeCall
    \/ ResolveFactoryCodeCall

SpecPure == InitPure /\ [][NextPure]_vars

(***************************************************************************)
(* Steps of the page the properties below speak about.                     *)
(***************************************************************************)
\* a loadData call completes successfully in this step
ResolveStep ==
    \E c \in 1..Len(calls) : calls[c].st = "inflight" /\ calls'[c].st = "ok"

\* a loadData call fails in this step
RejectStep ==
    \E c \in 1..Len(calls) : calls[c].st = "inflight" /\ calls'[c].st = "err"

\* the bottom-reached callback is invoked in this step
BottomReachedStep == refreshCalls' # refreshCalls

\* the polling timer of the refresh policy, armed and held by the page
PollingTimerArmed ==
    /\ refreshTimerRef # 0
    /\ timers = { [id |-> refreshTimerRef,
                   period |-> NO_DATA_REFRESH_INTERVAL] }

NoPollingTimer == timers = {}

(***************************************************************************)
(* C1: adaptive polling.                                                   *)
(***************************************************************************)
\* C1: after every successful loadData with an empty transformed result
\* exactly the 5-minute polling timer is armed and a tick of it starts a
\* loadData; after every successful loadData with a non-empty result no
\* polling timer is armed; while the page is mounted, a non-empty order list
\* implies that no polling timer is armed.
C1_AdaptivePolling ==
    /\ [](Mounted /\ orders # <<>> => NoPollingTimer /\ refreshTimerRef = 0)
    /\ [][ResolveStep =>
            IF Transformed[lastResolved'.records].orders = <<>>
            THEN PollingTimerArmed'
            ELSE NoPollingTimer' /\ refreshTimerRef' = 0]_vars
    /\ [][(\E id \in TimerIds : TimerTick(id)) =>
            /\ Len(calls') = Len(calls) + 1
            /\ calls'[Len(calls')].st = "inflight"]_vars

\* an empty poll result has armed the timer on a mounted page that had
\* shown orders before
C1_Witness ==
    /\ Mounted
    /\ lastResolved.id >= 2
    /\ lastResolved.records = <<>>
    /\ orders = <<>>
    /\ PollingTimerArmed

(***************************************************************************)
(* C2: a failed refresh preserves the displayed state.                     *)
(***************************************************************************)
\* C2: a loadData call whose fetch fails leaves orders, alerts, summary,
\* pendingWithReceiptCount, lastUpdateTime and the polling timer exactly as
\* they were and starts no further fetch; lastUpdateTime changes only in a
\* step that completes a loadData call successfully.
C2_FailurePreservesState ==
    /\ [][RejectStep =>
            /\ UNCHANGED refreshState
            /\ Len(calls') = Len(calls)
            /\ \A c \in 1..Len(calls) : calls'[c].fetches = calls[c].fetches
         ]_vars
    /\ [][lastUpdateTime' # lastUpdateTime => ResolveStep]_vars

\* a refresh has failed on a mounted page that still shows the data and the
\* timestamp of an earlier success
C2_Witness ==
    /\ Mounted
    /\ \E c \in 1..Len(calls) : calls[c].st = "err" /\ c > lastResolved.id
    /\ lastResolved.id # 0
    /\ orders # <<>>
    /\ lastUpdateTime # ""

(***************************************************************************)
(* C3: no polling timer after unmount.                                     *)
(***************************************************************************)
\* C3: once the page has unmounted no polling timer is armed, also when a
\* loadData call was in flight at the time of the unmount.
C3_NoTimerAfterUnmount == phase = "unmounted" => NoPollingTimer

(***************************************************************************)
(* C4: the bottom-reached callback fires once per scroll cycle.            *)
(***************************************************************************)
\* C4: within one scroll cycle (from one run of the table's effect to the
\* next) the bottom-reached callback is invoked at most once, and only by a
\* frame or scroll event that finds the cycle still scrolling at or past
\* the threshold.
C4_OncePerCycle ==
    /\ [](cycleFires <= 1)
    /\ [](cycleFires = 1 => ~shouldScrollRef /\ isAtBottomRef)
    /\ [][BottomReachedStep =>
            /\ shouldScrollRef
            /\ cycleFires = 0
            /\ AtBottomThreshold(scrollTop')]_vars

\* the callback has fired in this cycle through a scroll event, and the
\* frame of the animation loop is still to run at the same position
C4_Witness ==
    /\ cycleFires = 1
    /\ frames # {}
    /\ AtBottomThreshold(scrollTop)
    /\ tblRefreshKey # tableRefreshKey

(***************************************************************************)
(* C5: the two refresh keys.                                               *)
(***************************************************************************)
\* C5: every invocation of the bottom-reached callback increments both
\* refresh keys by exactly one and starts exactly one loadData; the keys
\* change in no other step, never decrease, and are always equal to each
\* other and to the number of invocations so far.
C5_RefreshKeys ==
    /\ [](tableRefreshKey = trendsRefreshKey /\ tableRefreshKey = refreshCalls)
    /\ [][BottomReachedStep =>
            /\ refreshCalls' = refreshCalls + 1
            /\ tableRefreshKey' = tableRefreshKey + 1
            /\ trendsRefreshKey' = trendsRefreshKey + 1
            /\ calls' = Append(calls, [st |-> "inflight", fetches |-> 1])
         ]_vars
    /\ [][~BottomReachedStep =>
            UNCHANGED << tableRefreshKey, trendsRefreshKey >>]_vars

\* the callback has been invoked twice
C5_Witness == refreshCalls = 2 /\ tableRefreshKey = 2

(***************************************************************************)
(* C6: overlapping refreshes, the last to complete wins.                   *)
(***************************************************************************)
\* C6: while the page is mounted and a loadData call has completed
\* successfully, the displayed orders, alerts, summary and
\* pendingWithReceiptCount and the polling timer are those of the call that
\* completed last, whatever the order in which the calls were started.
C6_LastCompletionWins ==
    Mounted /\ lastResolved.id # 0 =>
        /\ orders = Transformed[lastResolved.records].orders
        /\ alerts = Transformed[lastResolved.records].alerts
        /\ summary = Transformed[lastResolved.records].summary
        /\ pendingWithReceiptCount =
               Transformed[lastResolved.records].pendingWithReceipt
        /\ IF lastResolved.records = <<>>
           THEN PollingTimerArmed ELSE NoPollingTimer

\* a call has completed after a call started later than it, with other
\* records, and its stale result is what the page shows
C6_Witness ==
    /\ Mounted
    /\ lastResolved.stale
    /\ orders = Transformed[lastResolved.records].orders

(***************************************************************************)
(* C7: the refresh status derives from one record set.                     *)
(***************************************************************************)
\* the ids of the delayed records without a receipt, in input order
DelayedNoReceiptIds(R) ==
    LET D == SelectSeq(R, IsDelayedNoReceipt)
    IN  [i \in 1..Len(D) |-> JsOr(D[i].sheetNo, JStr(""))]

\* orders, alerts, summary and pendingWithReceiptCount all derive from R
DerivedFrom(R) ==
    /\ Len(orders) = Len(R)
    /\ \A i \in 1..Len(R) : orders[i].id = JsOr(R[i].sheetNo, JStr(""))
    /\ summary.totalCount = Len(orders)
    /\ summary.deliveredCount =
           Cardinality({ i \in 1..Len(R) : IsDeliveredTruthy(R[i]) })
    /\ summary.pendingCount = summary.totalCount - summary.deliveredCount
    /\ summary.receiptCount =
           Cardinality({ i \in 1..Len(R) : HasReceiptTruthy(R[i]) })
    /\ LET ids == DelayedNoReceiptIds(R)
           n == IF Len(ids) > ALERT_CAP THEN ALERT_CAP ELSE Len(ids)
       IN  /\ summary.delayedCount = Len(ids)
           /\ Len(alerts) = n
           /\ \A i \in 1..n : alerts[i].id = ids[i]
    /\ pendingWithReceiptCount =
           Cardinality({ i \in 1..Len(R) : IsPendingWithReceipt(R[i]) })

\* C7: at every moment there is one fetched record set R (the empty set
\* before the first success) from which orders, alerts, summary and
\* pendingWithReceiptCount all derive: one order per record in input order,
\* summary.totalCount = |orders|, alerts the first 8 delayed records without
\* receipt.
C7_OneRecordSet == \E R \in RecordSets : DerivedFrom(R)

\* a result with more than eight delayed records has replaced one with
\* none: the alerts are capped and belong to the same set as the orders
C7_Witness ==
    /\ Mounted
    /\ lastResolved.id >= 2
    /\ Len(orders) = ALERT_CAP + 1
    /\ Len(alerts) = ALERT_CAP
    /\ DerivedFrom(lastResolved.records)

(***************************************************************************)
(* C8: at most one animation loop.                                         *)
(***************************************************************************)
\* C8: at most one frame of the auto-scroll loop is scheduled at any time,
\* and it is the one held in scrollRef; a run of the table's effect on a
\* non-empty list cancels the frame scheduled before it, sets the scroll
\* offset to 0 and clears AtBottom before it schedules the new loop.
C8_SingleLoop ==
    /\ [](Cardinality(frames) <= 1 /\ frames \subseteq {scrollRef})
    /\ [][Render /\ Len(orders) > 0 =>
            /\ frames' = {scrollRef'}
            /\ frames' \cap frames = {}
            /\ scrollTop' = 0
            /\ ~isAtBottom' /\ ~isAtBottomRef'
            /\ shouldScrollRef']_vars

\* the effect has run again while the loop of the previous cycle had a
\* frame scheduled and had advanced: the new cycle starts at the top with
\* one frame
C8_Witness ==
    /\ Mounted
    /\ tblRefreshKey >= 1
    /\ scrollRef >= 2
    /\ frames = {scrollRef}
    /\ scrollTop = 0
    /\ ~isAtBottom

(***************************************************************************)
(* C9: an empty list neither scrolls nor refreshes.                        *)
(***************************************************************************)
\* C9: while the list the table renders is empty no frame is scheduled and
\* the bottom-reached callback is not invoked, also when the list becomes
\* empty with a loop running or in AtBottom.
C9_EmptyListIdle ==
    /\ [](Len(tblOrders) = 0 => frames = {})
    /\ [][BottomReachedStep => Len(tblOrders) > 0 /\ Len(tblOrders') > 0]_vars

\* the table on a mounted page has gone from a non-empty list in AtBottom
\* to the empty list
C9_Witness ==
    /\ Mounted
    /\ Len(tblOrders) = 0
    /\ isAtBottomRef
    /\ scrollRef # 0
    /\ frames = {}

(***************************************************************************)
(* C10: the HTTP client retries server errors within its budget.           *)
(***************************************************************************)
\* the fetch came back with a response of status 5xx
Is5xx(entry) == "status" \in DOMAIN entry /\ entry.status >= 500

\* the fetch came back with a 200 response carrying a successful envelope
IsSuccessEnvelope(entry) ==
    /\ "status" \in DOMAIN entry
    /\ entry.status = 200
    /\ entry.json
    /\ entry.body.t = "object"
    /\ isSuccess(entry.body.code)

\* every fetch of the call before the last came back with a 5xx, and the
\* last with a successful envelope
ServerErrorsThenSuccess ==
    /\ Len(httpLog) >= 1
    /\ \A i \in 1..(Len(httpLog) - 1) : Is5xx(httpLog[i])
    /\ IsSuccessEnvelope(httpLog[Len(httpLog)])

\* every fetch of the call came back with a 5xx
ServerErrorsOnly ==
    /\ Len(httpLog) >= 1
    /\ \A i \in 1..Len(httpLog) : Is5xx(httpLog[i])

\* C10: with retry budget 3 and unwrapping on, a request whose first k <= 3
\* attempts receive a 5xx and whose next attempt receives a successful
\* envelope resolves with the envelope's data; a request whose attempts all
\* receive a 5xx makes four attempts and rejects with a FetchError; no
\* request makes more than retry + 1 attempts or another one once settled;
\* an attempt after the first starts only after a sleep of retryDelay.
C10_RetryOnServerError ==
    /\ [](httpPc = "settled" /\ retry = defaultRetry /\ unwrap
            /\ ServerErrorsThenSuccess
          => httpResult = Return(httpLog[Len(httpLog)].body.data))
    /\ [](httpPc = "settled" /\ retry = defaultRetry
            /\ ServerErrorsOnly
          => /\ Len(httpLog) = defaultRetry + 1
             /\ httpResult.kind = "error"
             /\ IsFetchError(httpResult.error)
             /\ httpResult.error.status
                    = JNum(httpLog[Len(httpLog)].status))
    /\ [](Len(httpLog) <= retry + 1)
    /\ [][httpPc = "settled" => httpLog' = httpLog]_vars
    /\ [][attempt' # attempt /\ httpPc # "idle" =>
            /\ attempt' = attempt + 1
            /\ httpPc = "sleeping"
            /\ sinceFailure >= retryDelay]_vars

\* three server errors, then a successful envelope on the fourth attempt
C10_Witness ==
    /\ httpPc = "settled"
    /\ retry = defaultRetry
    /\ unwrap
    /\ Len(httpLog) = defaultRetry + 1
    /\ ServerErrorsThenSuccess
    /\ httpResult = Return(Payload)

(***************************************************************************)
(* C11: client errors and application errors are not retried.              *)
(***************************************************************************)
\* the fetch came back with a response of status 4xx
Is4xx(entry) ==
    "status" \in DOMAIN entry /\ entry.status >= 400 /\ entry.status < 500

\* the fetch came back with a JSON object in a 2xx response
IsJsonEnvelope(entry) ==
    /\ "status" \in DOMAIN entry
    /\ entry.status >= 200 /\ entry.status <= 299
    /\ entry.json
    /\ entry.body.t = "object"

\* the fetch came back with an envelope whose code is not a success code
IsApplicationError(entry) ==
    IsJsonEnvelope(entry) /\ ~isSuccess(entry.body.code)

\* C11: for every retry budget, a 4xx response and (with unwrapping on) an
\* envelope with a non-success code end the request at once: the response is
\* the last fetch of the call, the call is settled, and the caller has a
\* FetchError that is not a network error and carries the status of that
\* response.  A call whose first response is one of these has made exactly
\* one fetch.
C11_ClientErrorsNotRetried ==
    \A i \in 1..Len(httpLog) :
        Is4xx(httpLog[i]) \/ (unwrap /\ IsApplicationError(httpLog[i])) =>
            /\ i = Len(httpLog)
            /\ httpPc = "settled"
            /\ httpResult.kind = "error"
            /\ IsFetchError(httpResult.error)
            /\ ~httpResult.error.isNetworkError
            /\ httpResult.error.status = JNum(httpLog[i].status)

\* a 404 on the first attempt of a call with retry budget 3
C11_Witness ==
    /\ retry = defaultRetry
    /\ Len(httpLog) = 1
    /\ Is4xx(httpLog[1])
    /\ httpPc = "settled"
    /\ httpResult.kind = "error"
    /\ httpResult.error.status = JNum(404)

(***************************************************************************)
(* C12: timeouts and network failures are retried.                         *)
(***************************************************************************)
\* the fetch was aborted by the timeout
IsTimeout(entry) == "name" \in DOMAIN entry /\ entry.name = "AbortError"

\* C12: a call whose last fetch was aborted by the timeout has settled only
\* when its retry budget was exhausted, that is after retry + 1 fetches.
C12_TimeoutRetried ==
    httpPc = "settled" /\ Len(httpLog) >= 1
        /\ IsTimeout(httpLog[Len(httpLog)])
    => Len(httpLog) = retry + 1

(***************************************************************************)
(* C13: envelope unwrapping.                                               *)
(***************************************************************************)
\* the codes that signal success
SuccessCodes == { JNum(0), JNum(200), JStr("0"), JStr("200"), JStr("success") }

\* C13: with unwrapping on, a call that ends with a JSON envelope resolves
\* with the envelope's data if and only if its code is 0, 200, "0", "200" or
\* "success"; for every other code, a missing one included, it rejects with
\* a FetchError carrying that code, the HTTP status and the request id
\* generated for the call.
C13_EnvelopeUnwrapping ==
    httpPc = "settled" /\ unwrap /\ Len(httpLog) >= 1
        /\ IsJsonEnvelope(httpLog[Len(httpLog)])
    => LET last == httpLog[Len(httpLog)]
       IN  IF last.body.code \in SuccessCodes
           THEN httpResult = Return(last.body.data)
           ELSE /\ httpResult.kind = "error"
                /\ IsFetchError(httpResult.error)
                /\ httpResult.error.code = last.body.code
                /\ httpResult.error.status = JNum(last.status)
                /\ httpResult.error.requestId = requestId
                /\ requestId \in RequestIds

\* an envelope without a code: the error carries the missing code, the
\* status and the id of the request
C13_Witness ==
    /\ httpPc = "settled"
    /\ unwrap
    /\ Len(httpLog) >= 1
    /\ IsJsonEnvelope(httpLog[Len(httpLog)])
    /\ httpLog[Len(httpLog)].body.code = Undefined
    /\ httpResult.kind = "error"
    /\ httpResult.error.code = Undefined
    /\ httpResult.error.requestId = requestId

(***************************************************************************)
(* C14: application errors of the dispatch list reach loadData as         *)
(* failures.                                                               *)
(***************************************************************************)
\* C14: when the dispatch-list request of a loadData call is answered with
\* an envelope whose code is not a success code, that call fails: it is not
\* a call that resolved with a record set.
C14_ApplicationErrorFails ==
    lastDispatch.call # 0 /\ IsApplicationError(lastDispatch.response) =>
        /\ calls[lastDispatch.call].st = "err"
        /\ lastResolved.id # lastDispatch.call

(***************************************************************************)
(* C15: the status follows the delivered flag in every representation.     *)
(***************************************************************************)
\* a decimal numeral: optional sign, digits with at most one point in them,
\* blanks around it
IsNumeral(str) ==
    LET t == Trim(str)
        from == IF Len(t) > 0 /\ CharAt(t, 1) \in {"-", "+"} THEN 2 ELSE 1
    IN  /\ \E i \in from..Len(t) : IsDigit(CharAt(t, i))
        /\ \A i \in from..Len(t) : IsDigit(CharAt(t, i)) \/ CharAt(t, i) = "."
        /\ Cardinality({ i \in from..Len(t) : CharAt(t, i) = "." }) <= 1

\* the numeral denotes a number other than zero
NonZeroNumeral(str) ==
    IsNumeral(str)
    /\ \E i \in 1..Len(str) : IsDigit(CharAt(str, i)) /\ CharAt(str, i) # "0"

\* the delivered flag as the specification normalizes it: true, a number
\* other than zero, a numeric string other than zero
NormalizedDelivered(v) ==
    \/ v = JBool(TRUE)
    \/ v.t = "number" /\ ~v.nan /\ v.n # 0
    \/ v.t = "string" /\ NonZeroNumeral(v.s)

\* C15: getOrderStatus gives shipped exactly for a flag that is true, a
\* non-zero number or a non-zero numeric string, and pending for every
\* other value.
C15_StatusFollowsFlag ==
    Applied("getOrderStatus") =>
        (pureCall.ret = "shipped" <=> NormalizedDelivered(pureCall.arg))

(***************************************************************************)
(* C16: the alert list is the first eight delayed records without receipt. *)
(***************************************************************************)
Min(a, b) == IF a < b THEN a ELSE b

\* positions of the records that are delayed and have no receipt
DelayedPositions(records) ==
    { i \in 1..Len(records) : /\ records[i].riskFlag = JStr("DELAYED")
                              /\ ~Truthy(records[i].hasReceipt) }

\* the position of the j-th such record
DelayedPosition(records, j) ==
    CHOOSE i \in DelayedPositions(records) :
        Cardinality({ m \in DelayedPositions(records) : m <= i }) = j

\* C16: transformAlerts returns min(8, number of delayed records without
\* receipt) alerts, the j-th made from the j-th such record of the input
\* (sheet number, fixed message, formatted time), and that length is
\* min(8, summary.delayedCount).
C16_FirstEightDelayed ==
    Applied("transformAlerts") =>
        LET records == pureCall.arg
            result == pureCall.ret
        IN  /\ Len(result) =
                   Min(8, Cardinality(DelayedPositions(records)))
            /\ Len(result) = Min(8, pureCall.summary.delayedCount)
            /\ \A j \in 1..Len(result) :
                   LET r == records[DelayedPosition(records, j)]
                   IN  /\ result[j].id = r.sheetNo
                       /\ result[j].message = ALERT_MESSAGE
                       /\ result[j].timestamp =
                              formatTime(r.lastRecRequireTime)

\* more than eight such records, after a record that is none
C16_Witness ==
    /\ Applied("transformAlerts")
    /\ Cardinality(DelayedPositions(pureCall.arg)) > 8
    /\ 1 \notin DelayedPositions(pureCall.arg)
    /\ Len(pureCall.ret) = 8
    /\ pureCall.ret[1].id = JStr("N2")

(***************************************************************************)
(* C17: pendingCount is computed from the other two counts.                *)
(***************************************************************************)
\* C17: in every state of the page, summary.pendingCount is
\* summary.totalCount - summary.deliveredCount, and lies between 0 and
\* summary.totalCount.
C17_PendingIsComputed ==
    /\ summary.pendingCount = summary.totalCount - summary.deliveredCount
    /\ 0 <= summary.pendingCount
    /\ summary.pendingCount <= summary.totalCount

\* a summary of three records of which one is delivered, one is flagged
\* not delivered and one has no flag
C17_Witness ==
    /\ lastResolved.id # 0
    /\ summary.totalCount = 3
    /\ summary.deliveredCount = 1
    /\ summary.pendingCount = 2
    /\ Len(SelectSeq(lastResolved.records, IsDeliveredFalse)) = 1

(***************************************************************************)
(* C18: the receipt warning.                                               *)
(***************************************************************************)
\* C18: pendingWithReceiptCount is the number of records with a receipt
\* whose delivered flag is the boolean false; the warning is rendered iff
\* pendingWithReceiptCount > 0 or receiptCount > deliveredCount, and when
\* rendered it displays receiptCount - deliveredCount, or 0 if that is
\* negative.
C18_ReceiptWarning ==
    /\ Applied("pendingWithReceipt") =>
           pureCall.ret =
               Cardinality({ i \in 1..Len(pureCall.arg) :
                               /\ Truthy(pureCall.arg[i].hasReceipt)
                               /\ pureCall.arg[i].isDelivered.t = "boolean"
                               /\ ~pureCall.arg[i].isDelivered.b })
    /\ Applied("ReceiptWarning") =>
           LET props == pureCall.arg
               difference == props.receiptCount - props.deliveredCount
           IN  /\ pureCall.ret.visible <=>
                      \/ props.pendingWithReceiptCount > 0
                      \/ props.receiptCount > props.deliveredCount
               /\ pureCall.ret.visible =>
                      /\ pureCall.ret.offSystem >= 0
                      /\ difference >= 0 => pureCall.ret.offSystem = difference
                      /\ difference < 0 => pureCall.ret.offSystem = 0

\* the warning is shown for pending records with receipt although more
\* records are delivered than have a receipt: the count displayed is 0
C18_Witness ==
    /\ Applied("ReceiptWarning")
    /\ pureCall.arg.pendingWithReceiptCount > 0
    /\ pureCall.arg.receiptCount < pureCall.arg.deliveredCount
    /\ pureCall.ret.visible
    /\ pureCall.ret.offSystem = 0

(***************************************************************************)
(* C19: formatTime is total.                                               *)
(***************************************************************************)
\* two digits, a colon, two digits: an hour below 24 and a minute below 60
IsClockTime(str) ==
    /\ Len(str) = 5
    /\ AllDigits(str, 1, 2) /\ CharAt(str, 3) = ":" /\ AllDigits(str, 4, 5)
    /\ DigitRun(str, 1, 0) < 24 /\ DigitRun(str, 4, 0) < 60

\* C19: formatTime returns a zero-padded HH:MM for a timestamp that parses
\* and "-" for one that is absent or does not parse.
C19_FormatTimeTotal ==
    Applied("formatTime") =>
        IF Truthy(pureCall.arg) /\ ParseDate(pureCall.arg.s).valid
        THEN IsClockTime(pureCall.ret)
        ELSE pureCall.ret = "-"

(***************************************************************************)
(* C20: the order of the factory-code sources.                             *)
(***************************************************************************)
\* a source has a value that is not empty once trimmed
NonBlank(v) == v.t = "string" /\ Trim(v.s) # ""

\* C20: the factory code is the first of URL parameter factoryCode, URL
\* parameter factorycode and the configured default that is non-empty
\* after trimming.
C20_FirstNonBlankSource ==
    Applied("resolveFactoryCode") =>
        LET search == pureCall.arg.search
        IN  pureCall.ret =
                IF NonBlank(search.factoryCode)
                THEN Trim(search.factoryCode.s)
                ELSE IF NonBlank(search.factorycode)
                THEN Trim(search.factorycode.s)
                ELSE JsOr(pureCall.arg.env, JStr(DEFAULT_FACTORY_CODE)).s

(***************************************************************************)
(* C21: loadFactoryInfo.                                                   *)
(***************************************************************************)
\* the name a lookup result carries, "" if it carries none
NameIn(res) ==
    IF res = Undefined THEN ""
    ELSE IF res.data # Undefined
    THEN (IF res.data.factoryName.t = "string"
          THEN res.data.factoryName.s ELSE "")
    ELSE IF res.factoryName.t = "string" THEN res.factoryName.s ELSE ""

\* C21: loadFactoryInfo is started by the mount effect only and never
\* started again; when it ends on the mounted page the display name is the
\* name the lookup resolved with, or the placeholder if the lookup rejected
\* or resolved without a name, and from then on it is never empty.
C21_FactoryNameOrPlaceholder ==
    /\ [](Mounted /\ factoryCall.st = "done" => factoryName # "")
    /\ [][/\ factoryCall'.st = "inflight" /\ factoryCall.st # "inflight"
              => phase = "init" /\ factoryCall.st = "none"
          /\ factoryCall.st = "done" => factoryCall'.st = "done"
          /\ \A res \in FactoryResponses :
                 Mounted /\ FactoryResolve(res) =>
                     factoryName' = IF NameIn(res) # "" THEN NameIn(res)
                                    ELSE NAME_PLACEHOLDER
          /\ Mounted /\ FactoryReject => factoryName' = NAME_PLACEHOLDER]_vars

\* the lookup has failed, and loadData has been started again since
C21_Witness ==
    /\ Mounted
    /\ factoryCall.st = "done"
    /\ factoryName = NAME_PLACEHOLDER
    /\ Len(calls) >= 2
    /\ refreshCalls >= 1

TrendsFailureStep ==
    \/ TrendsFetchRejects
    \/ \E response \in DispatchResponses :
           /\ ~(response.status \in 200..299 /\ response.json)
           /\ TrendsAnswered(response)

C23_SixtySecondRefresh ==
    Mounted /\ lastResolved.id # 0 =>
        \E tm \in timers : tm.period = 60 * 1000

(***************************************************************************)
(* C24: refresh never stalls.                                              *)
(***************************************************************************)
\* no loadData call is awaiting its fetch
NoLoadInFlight == \A c \in 1..Len(calls) : calls[c].st # "inflight"

\* C24: on the mounted page, whenever no loadData is in flight, something
\* is left that will invoke loadData again: the polling timer is armed, or
\* the table has a non-empty list to scroll to its bottom.
C24_RefreshNeverStalls ==
    Mounted /\ NoLoadInFlight => PollingTimerArmed \/ Len(orders) > 0

(***************************************************************************)
(* C25: the table waits at the bottom for the refresh it asked for.        *)
(***************************************************************************)
\* every loadData started after the one of the mount effect is in flight:
\* so is, then, every loadData a bottom-reached callback has started
RefreshesInFlight ==
    \A c \in 2..Len(calls) : calls[c].st = "inflight"

\* C25: from a bottom-reached callback until the loadData it started has
\* completed, the table stays in AtBottom and no further bottom-reached
\* callback fires.
C25_WaitsAtBottom ==
    [][/\ Mounted /\ Mounted'
       /\ refreshCalls >= 1
       /\ RefreshesInFlight /\ RefreshesInFlight'
       => isAtBottom' /\ ~BottomReachedStep]_vars

(***************************************************************************)
(* C26: a scroll cycle makes progress.                                     *)
(***************************************************************************)
\* a cycle is under way: the table shows a list and has not reached the
\* bottom since its effect ran
Scrolling == ContainerMounted /\ effectActive /\ shouldScrollRef

\* C26: a frame of a cycle under way either finds the offset at or past
\* max scroll - 50 and fires the bottom-reached callback, or advances the
\* offset by exactly 1, not beyond the max scroll; and if the browser keeps
\* running the frames, a cycle under way reaches the threshold, enters
\* AtBottom and fires the callback, unless the table loses its list or the
\* page is unmounted first (or the bound on loadData calls is used up when
\* the threshold is reached).
C26_CycleProgress ==
    /\ [][\A f \in frames :
            Scrolling /\ AnimationFrame(f) =>
                IF scrollTop >= maxScroll - 50
                THEN BottomReachedStep /\ isAtBottom' /\ scrollTop' = scrollTop
                ELSE /\ scrollTop' = scrollTop + 1
                     /\ scrollTop' <= maxScroll
                     /\ ~BottomReachedStep]_vars
    /\ [](Scrolling => 0 <= scrollTop /\ scrollTop <= maxScroll)
    /\ (Scrolling /\ scrollTop = 0) ~>
           \/ cycleFires = 1 /\ isAtBottom /\ scrollTop >= maxScroll - 50
           \/ ~ContainerMounted
           \/ scrollTop >= maxScroll - 50 /\ Len(calls) >= MaxLoads

\* the loop has advanced frame by frame from 0 to the threshold of a list
\* longer than the viewport, and has fired the callback there
C26_Witness ==
    /\ ContainerMounted
    /\ maxScroll > 50
    /\ scrollTop = maxScroll - 50
    /\ cycleFires = 1
    /\ isAtBottom

(***************************************************************************)
(* C27: one polling interval, held in the handle.                          *)
(***************************************************************************)
\* C27: while the page is mounted at most one interval is live, and a live
\* interval is the one refreshTimerRef holds.
C27_OneIntervalInHandle ==
    Mounted =>
        /\ Cardinality(timers) <= 1
        /\ \A tm \in timers : tm.id = refreshTimerRef

\* the interval has been armed again over an armed one: a loadData started
\* by a tick of the interval has completed with an empty result, as the one
\* before it
C27_Witness ==
    /\ Mounted
    /\ Cardinality(timers) = 1
    /\ \E c, d \in 1..Len(calls) :
           /\ c < d
           /\ calls[c].st = "ok" /\ calls[d].st = "ok"
    /\ lastResolved.records = << >>
    /\ orders = << >>
    /\ refreshCalls = 0

(***************************************************************************)
(* C28: the summary and the order list count the same deliveries.          *)
(***************************************************************************)
IsShippedOrder(order) == order.status = "shipped"
IsPendingOrder(order) == order.status = "pending"

\* C28: for every record set whose delivered flags are booleans, numbers,
\* numeric strings or absent, the summary's deliveredCount is the number of
\* orders shown as shipped and its pendingCount the number shown as pending.
C28_SummaryMatchesOrders ==
    Applied("summaryAndOrders") =>
        /\ pureCall.ret.deliveredCount
               = Len(SelectSeq(pureCall.orders, IsShippedOrder))
        /\ pureCall.ret.pendingCount
               = Len(SelectSeq(pureCall.orders, IsPendingOrder))

(***************************************************************************)
(* C29: every request settles within its budget, with a typed error.       *)
(***************************************************************************)
\* the fetch was rejected, by the network or by the abort of the timeout
IsRejection(entry) == "isError" \in DOMAIN entry

\* C29: a request makes at most retry + 1 fetches and is settled when the
\* last of them is over; a settled request has delivered a payload or an
\* error, and an error it delivers is a FetchError, never the abort, network
\* or parse error the attempt ended with.
C29_SettlesWithTypedError ==
    /\ Len(httpLog) <= retry + 1
    /\ Len(httpLog) = retry + 1 => httpPc = "settled"
    /\ httpPc = "settled" <=> httpResult.kind \in { "value", "error" }
    /\ httpResult.kind = "error" =>
           /\ IsFetchError(httpResult.error)
           /\ httpResult.error.name \notin { "AbortError", "TypeError",
                                             "SyntaxError" }
           /\ httpResult.error.requestId = requestId

\* the network failed on every attempt of a request with retry budget 3:
\* the caller has a FetchError with the message of the last TypeError
C29_Witness ==
    /\ httpPc = "settled"
    /\ retry = defaultRetry
    /\ Len(httpLog) = defaultRetry + 1
    /\ \A i \in 1..Len(httpLog) :
           IsRejection(httpLog[i]) /\ httpLog[i].name = "TypeError"
    /\ httpResult.kind = "error"
    /\ IsFetchError(httpResult.error)
    /\ httpResult.error.message = httpLog[Len(httpLog)].message

(***************************************************************************)
(* C30: the risk level of an order.                                        *)
(***************************************************************************)
\* C30: an order's risk is high exactly when the record's riskFlag is
\* DELAYED, medium exactly when it is AT_RISK, and none for DELIVERED,
\* ON_TIME, an absent and an unrecognized flag; no order has risk low or
\* status delayed: whatever the risk flag, the status is shipped for a
\* delivered record and pending otherwise.
C30_RiskLevel ==
    Applied("toOrder") =>
        LET flag == pureCall.arg.riskFlag
            order == pureCall.ret
        IN  /\ order.risk = "high" <=> flag = JStr("DELAYED")
            /\ order.risk = "medium" <=> flag = JStr("AT_RISK")
            /\ flag \notin { JStr("DELAYED"), JStr("AT_RISK") } =>
                   order.risk = "none"
            /\ order.risk # "low"
            /\ order.status # "delayed"
            /\ order.status =
                   IF pureCall.arg.isDelivered \in { JBool(TRUE), JNum(1) }
                   THEN "shipped" ELSE "pending"
            /\ order.riskFlag = flag

\* a delayed record that was delivered: high risk, shown as shipped
C30_Witness ==
    /\ Applied("toOrder")
    /\ pureCall.arg.riskFlag = JStr("DELAYED")
    /\ pureCall.arg.isDelivered = JBool(TRUE)
    /\ pureCall.ret.risk = "high"
    /\ pureCall.ret.status = "shipped"


=============================================================================
